---------------------------- MODULE Spec2Model ----------------------------
(***************************************************************************)
(* Model of popcorn's spectral-imaging core:                               *)
(*   - material_decomposition.decomposition_equation_resolution            *)
(*   - registration.calculate_rotation_matrix_between_3d_vectors           *)
(*   - registration.retrieve_throat_centroid                               *)
(*   - registration.apply_rotation_pipeline                                *)
(*   - registration.count_the_needed_translation_for_black_slices          *)
(*   - registration.symmetry_based_registration                            *)
(*   - registration.straight_triangle_rotation                             *)
(*   - registration.straight_throat_rotation (tracking and rejection)      *)
(*   - material_decomposition.material_decomposition_pipeline              *)
(*   - material_decomposition.get_attenuation_from_kedge                   *)
(*   - phase_retrieval.pagailleIO.saveTiff16bit                            *)
(*                                                                         *)
(* Numbers.  A float is modelled as an exact rational <<n, d>> with d > 0  *)
(* and gcd(n, d) = 1, extended with the IEEE special values the code can   *)
(* produce: NaN = <<0, 0>>, +inf = <<1, 0>>, -inf = <<-1, 0>>.  float64    *)
(* arithmetic is taken as exact; the explicit narrowing astype(np.float32) *)
(* is modelled as round-to-nearest-even on a 24-bit significand.           *)
(***************************************************************************)
EXTENDS Integers, Sequences, FiniteSets, TLC

\* ------------------------------------------------------------------------
\* Bounds of the model (inputs are drawn from sets these numbers size).
\* ------------------------------------------------------------------------
MaxK == 2
MaxP == 3
MaxH == 2
MaxW == 2
MaxSeed == 1
MaxComp == 2
MaxMaskH == 2
MaxMaskW == 3
MaxDepth == 3
MaxOffset == 1
MaxN == 5
MaxBox == 3

\* ------------------------------------------------------------------------
\* Integer helpers
\* ------------------------------------------------------------------------
Abs(x) == IF x < 0 THEN -x ELSE x

Sign(x) == IF x < 0 THEN -1 ELSE IF x > 0 THEN 1 ELSE 0

RECURSIVE Gcd(_, _)
Gcd(a, b) == IF b = 0 THEN a ELSE Gcd(b, a % b)

RECURSIVE Pow2(_)
Pow2(k) == IF k = 0 THEN 1 ELSE 2 * Pow2(k - 1)

RECURSIVE SumTo(_, _)
\* F[1] + ... + F[n] for a sequence or function F of integers
SumTo(F, n) == IF n = 0 THEN 0 ELSE F[n] + SumTo(F, n - 1)

RECURSIVE ISqrtFrom(_, _)
ISqrtFrom(n, r) == IF (r + 1) * (r + 1) > n THEN r ELSE ISqrtFrom(n, r + 1)

\* floor of the square root of a natural number
ISqrt(n) == ISqrtFrom(n, 0)

IsSquare(n) == ISqrt(n) * ISqrt(n) = n

\* ------------------------------------------------------------------------
\* Float values: exact rationals extended with NaN and +-inf
\* ------------------------------------------------------------------------
NaN == <<0, 0>>

Inf(s) == <<s, 0>>

IsNaN(a) == a[1] = 0 /\ a[2] = 0

IsInf(a) == a[1] # 0 /\ a[2] = 0

IsFinite(a) == a[2] # 0

\* the float n/d of two integers: in lowest terms with a positive denominator;
\* nan or +-inf when d = 0
Q(n, d) ==
    IF d = 0 THEN <<Sign(n), 0>>
    ELSE LET g == Gcd(Abs(n), Abs(d))
             s == IF d < 0 THEN -1 ELSE 1
         IN  <<(s * n) \div g, (s * d) \div g>>

Z(n) == <<n, 1>>

RNeg(a) == <<-a[1], a[2]>>

RAdd(a, b) ==
    IF IsNaN(a) \/ IsNaN(b) THEN NaN
    ELSE IF IsInf(a) /\ IsInf(b) THEN (IF a[1] = b[1] THEN a ELSE NaN)
    ELSE IF IsInf(a) THEN a
    ELSE IF IsInf(b) THEN b
    ELSE Q(a[1] * b[2] + b[1] * a[2], a[2] * b[2])

RSub(a, b) == RAdd(a, RNeg(b))

RMul(a, b) ==
    IF IsNaN(a) \/ IsNaN(b) THEN NaN
    ELSE IF IsInf(a) \/ IsInf(b)
         THEN (IF a[1] = 0 \/ b[1] = 0 THEN NaN ELSE Inf(Sign(a[1]) * Sign(b[1])))
    ELSE Q(a[1] * b[1], a[2] * b[2])

\* IEEE division as numpy float64 performs it: x/0 is +-inf, 0/0 is nan (a
\* RuntimeWarning, not an exception); the divisors of this code are never -0.0
RDiv(a, b) ==
    IF IsNaN(a) \/ IsNaN(b) THEN NaN
    ELSE IF IsInf(a) THEN (IF IsInf(b) THEN NaN
                           ELSE Inf(Sign(a[1]) * (IF b[1] < 0 THEN -1 ELSE 1)))
    ELSE IF IsInf(b) THEN Z(0)
    ELSE IF b[1] = 0 THEN (IF a[1] = 0 THEN NaN ELSE Inf(Sign(a[1])))
    ELSE Q(a[1] * b[2], a[2] * b[1])

RECURSIVE RSumTo(_, _)
\* F[1] + ... + F[n] for a sequence F of float values
RSumTo(F, n) == IF n = 0 THEN Z(0) ELSE RAdd(RSumTo(F, n - 1), F[n])

RECURSIVE F32Bits(_, _, _, _)
\* binary long division of r/d (r < d) appended to the significand m until it
\* has 24 bits or the quotient is exact: <<significand, remainder, shift>>
F32Bits(m, r, d, k) ==
    IF m >= 8388608 \/ r = 0 THEN <<m, r, k>>
    ELSE IF 2 * r >= d THEN F32Bits(2 * m + 1, 2 * r - d, d, k + 1)
    ELSE F32Bits(2 * m, 2 * r, d, k + 1)

RECURSIVE F32Shift(_, _)
\* the number of low bits an integer part of 2^24 or more has to drop
F32Shift(ip, k) == IF ip \div Pow2(k) < 16777216 THEN k ELSE F32Shift(ip, k + 1)

\* numpy's astype(np.float32) of a finite value: round to nearest, ties to
\* even, on a 24-bit significand (exponent range not limiting here)
Float32(a) ==
    IF ~IsFinite(a) \/ a[1] = 0 THEN a
    ELSE
    LET n  == Abs(a[1])
        d  == a[2]
        ip == n \div d
        r0 == n % d
    IN  IF ip >= 16777216
        THEN LET k    == F32Shift(ip, 1)
                 m    == ip \div Pow2(k)
                 low  == ip % Pow2(k)
                 half == Pow2(k - 1)
                 up   == low > half \/ (low = half /\ r0 > 0)
                            \/ (low = half /\ r0 = 0 /\ m % 2 = 1)
             IN  Z(Sign(a[1]) * (IF up THEN m + 1 ELSE m) * Pow2(k))
        ELSE LET t  == F32Bits(ip, r0, d, 0)
                 m  == t[1]
                 r  == t[2]
                 up == 2 * r > d \/ (2 * r = d /\ m % 2 = 1)
             IN  Q(Sign(a[1]) * (IF up THEN m + 1 ELSE m), Pow2(t[3]))

\* ------------------------------------------------------------------------
\* Integer matrices (sequences of rows) and the linear algebra numpy supplies
\* ------------------------------------------------------------------------
RECURSIVE Tabulate(_, _)
\* the array <<f[1], ..., f[n]>> with every element computed once
Tabulate(f, n) == IF n = 0 THEN <<>> ELSE Append(Tabulate(f, n - 1), f[n])

\* a matrix with every entry computed once
Array2(M) == Tabulate([i \in 1..Len(M) |-> Tabulate(M[i], Len(M[i]))], Len(M))

NRows(M) == Len(M)

NCols(M) == IF Len(M) = 0 THEN 0 ELSE Len(M[1])

Transpose(M) == [j \in 1..NCols(M) |-> [i \in 1..NRows(M) |-> M[i][j]]]

\* integer matrix product A . B
MatMul(A, B) ==
    Array2([i \in 1..NRows(A) |-> [j \in 1..NCols(B) |->
        SumTo([k \in 1..NCols(A) |-> A[i][k] * B[k][j]], NCols(A))]])

\* integer matrix times integer vector
MatVec(A, x) ==
    Tabulate([i \in 1..NRows(A) |-> SumTo([k \in 1..NCols(A) |-> A[i][k] * x[k]], NCols(A))],
             NRows(A))

\* M without row i and column j
Minor(M, i, j) ==
    Array2([r \in 1..(NRows(M) - 1) |-> [c \in 1..(NCols(M) - 1) |->
        M[IF r < i THEN r ELSE r + 1][IF c < j THEN c ELSE c + 1]]])

RECURSIVE Det(_)
\* determinant by Laplace expansion along the first row
Det(M) ==
    IF NRows(M) = 0 THEN 1
    ELSE IF NRows(M) = 1 THEN M[1][1]
    ELSE SumTo([j \in 1..NCols(M) |->
                  (IF j % 2 = 1 THEN 1 ELSE -1) * M[1][j] * Det(Minor(M, 1, j))],
               NCols(M))

\* M with column j replaced by the vector b
ReplaceCol(M, j, b) ==
    Array2([r \in 1..NRows(M) |-> [c \in 1..NCols(M) |-> IF c = j THEN b[r] ELSE M[r][c]]])

\* the numerators of Cramer's rule: x[j] = CramerNum(M, b)[j] / Det(M)
CramerNum(M, b) == Tabulate([j \in 1..NCols(M) |-> Det(ReplaceCol(M, j, b))], NCols(M))

\* mutant: the system solved with the transposed coefficient matrix
SolveSquare_Transposed(A, b) ==
    LET num == CramerNum(Transpose(A), b)
        det == Det(A)
    IN  Tabulate([j \in 1..NCols(A) |-> Q(num[j], det)], NCols(A))

\* np.linalg.solve(A, b) for one right-hand side of a square invertible system
SolveSquare(A, b) ==
    LET num == CramerNum(A, b)
        det == Det(A)
    IN  Tabulate([j \in 1..NCols(A) |-> Q(num[j], det)], NCols(A))

\* np.linalg.lstsq(A, b, rcond=None)[0] for a full-rank A: the least-squares
\* solution (rows >= columns) or the minimum-norm solution (rows < columns)
LstSq(A, b) ==
    IF NRows(A) >= NCols(A)
    THEN SolveSquare(MatMul(Transpose(A), A), MatVec(Transpose(A), b))
    ELSE LET G   == MatMul(A, Transpose(A))
             num == CramerNum(G, b)
             det == Det(G)
         IN  Tabulate([j \in 1..NCols(A) |->
                         Q(SumTo([i \in 1..NRows(A) |-> A[i][j] * num[i]], NRows(A)), det)],
                      NCols(A))

\* full rank of an integer matrix (the Gram determinant does not vanish)
FullRank(A) ==
    IF NRows(A) >= NCols(A) THEN Det(MatMul(Transpose(A), A)) # 0
    ELSE Det(MatMul(A, Transpose(A))) # 0

\* ------------------------------------------------------------------------
\* State
\* ------------------------------------------------------------------------
VARIABLES
    \* decomposition_equation_resolution: arguments
    images,
    densities,
    material_attenuations,
    volume_fraction_hypothesis,
    \* decomposition_equation_resolution: locals and position
    pc,
    system_2d_matrix,
    vector_2d_matrix,
    solution_matrix,
    nb,
    material_index,
    concentration_maps,
    raised,
    linalg_calls,
    \* calculate_rotation_matrix_between_3d_vectors
    rot_pc,
    rot_args,
    moving_vector,
    ref_vector,
    rot_result,
    \* retrieve_throat_centroid
    cen_pc,
    mask,
    regions,
    cen_result,
    cen_raised,
    \* apply_rotation_pipeline: arguments, the local image, position
    pip_pc,
    pip_args,
    pip_image,
    \* count_the_needed_translation_for_black_slices: argument, locals, result
    blk_pc,
    blk_image,
    nb_slice,
    front_offset,
    bottom_offset,
    slice_of_image,
    blk_result,
    \* symmetry_based_registration: arguments at the call, the caller's
    \* bounding-box array, locals, result
    sym_pc,
    sym_args,
    skull_bounding_box,
    image_to_study,
    skull_to_study,
    saved_sequences,
    sym_i,
    diff,
    correct_angle,
    \* cross_correlation_list is only printed: the model keeps its minimum
    \* and the index of the first entry that attains it
    cross_correlation_min,
    cross_correlation_argmin,
    \* history: the angle and the widths of the two halves of each candidate
    angles_evaluated,
    half_widths,
    sym_result,
    sym_raised,
    \* straight_triangle_rotation(image, skull, skull_bounding_box,
    \* barycenter_jaw_one, barycenter_jaw_two)
    tri_pc,
    tri_args,
    skull_center,
    jaws_vector,
    triangle_angle,
    tri_result,
    \* straight_throat_rotation(image, throat_mask_img), automatic mode
    thr_pc,
    throat_mask_img,
    centroid_list,
    vectors_list,
    list_of_ys,
    list_of_xs,
    total_vector,
    \* the vector normalized_current_vector is the normalisation of
    current_vector,
    \* history: one record per evaluation of a while condition
    thr_tests,
    direction_vector,
    throat_coordinates,
    thr_raised,
    \* material_decomposition_pipeline(radix)
    mdp_pc,
    \* the file system: the folders glob returns, in its order, and the shape
    \* of each image file of each folder
    checking_folders,
    folder_files,
    list_of_materials,
    list_of_energies,
    list_of_input_folders,
    list_of_min_max,
    attenuations_array,
    list_of_densities,
    nb_of_filenames,
    total_filenames_nb,
    reference_shape,
    list_of_output_folders,
    slice_nb,
    \* history: directories created, images opened, progress reports made and
    \* images saved, in order
    created_directories,
    opened,
    progress,
    saved,
    \* history: the arguments of every print of the pipeline itself
    printed,
    mdp_raised,
    \* get_attenuation_from_kedge(attenuation_material, kedge_material,
    \* above_or_below)
    att_pc,
    att_args,
    att_result,
    \* saveTiff16bit(data, filename, minIm, maxIm): tif_data is data, flattened
    tif_pc,
    tif_data,
    minIm,
    maxIm,
    datatoStore,
    \* the pixels handed to TifImage(...).write(filename)
    tif_written

decVars == <<images, densities, material_attenuations, volume_fraction_hypothesis,
             pc, system_2d_matrix, vector_2d_matrix, solution_matrix, nb,
             material_index, concentration_maps, raised, linalg_calls>>

rotVars == <<rot_pc, rot_args, moving_vector, ref_vector, rot_result>>

cenVars == <<cen_pc, mask, regions, cen_result, cen_raised>>

pipVars == <<pip_pc, pip_args, pip_image>>

\* the variables of the functions specified after the first three
blkVars == <<blk_pc, blk_image, nb_slice, front_offset, bottom_offset, slice_of_image,
             blk_result>>

symVars == <<sym_pc, sym_args, skull_bounding_box, image_to_study, skull_to_study,
             saved_sequences, sym_i, diff, correct_angle, cross_correlation_min,
             cross_correlation_argmin, angles_evaluated, half_widths, sym_result,
             sym_raised>>

triVars == <<tri_pc, tri_args, skull_center, jaws_vector, triangle_angle, tri_result>>

\* the variables of the functions specified after symmetry_based_registration
thrVars == <<thr_pc, throat_mask_img, centroid_list, vectors_list, list_of_ys, list_of_xs,
             total_vector, current_vector, thr_tests, direction_vector,
             throat_coordinates, thr_raised>>

mdpVars == <<mdp_pc, checking_folders, folder_files, list_of_materials, list_of_energies,
             list_of_input_folders, list_of_min_max, attenuations_array, list_of_densities,
             nb_of_filenames, total_filenames_nb, reference_shape, list_of_output_folders,
             slice_nb, created_directories, opened, progress, saved, printed,
             mdp_raised>>

attVars == <<att_pc, att_args, att_result>>

tifVars == <<tif_pc, tif_data, minIm, maxIm, datatoStore, tif_written>>

\* the variables of the two functions specified last
lkpVars == <<attVars, tifVars>>

extVars == <<triVars, thrVars, mdpVars, lkpVars>>

regVars == <<pipVars, blkVars, symVars, extVars>>

\* what a step of straight_triangle_rotation leaves alone
triOthers == <<decVars, rotVars, cenVars, pipVars, blkVars, symVars, thrVars, mdpVars,
               lkpVars>>

\* what a step of straight_throat_rotation leaves alone
thrOthers == <<decVars, rotVars, cenVars, pipVars, blkVars, symVars, triVars, mdpVars,
               lkpVars>>

\* what a step of material_decomposition_pipeline leaves alone
mdpOthers == <<decVars, rotVars, cenVars, pipVars, blkVars, symVars, triVars, thrVars,
               lkpVars>>

\* what a call of get_attenuation_from_kedge leaves alone
attOthers == <<decVars, rotVars, cenVars, pipVars, blkVars, symVars, triVars, thrVars,
               mdpVars, tifVars>>

\* what a step of saveTiff16bit leaves alone
tifOthers == <<decVars, rotVars, cenVars, pipVars, blkVars, symVars, triVars, thrVars,
               mdpVars, attVars>>

vars == <<decVars, rotVars, cenVars, regVars>>

\* Python's None where an array is expected
None == <<>>

\* no exception has been raised
NoException == "none"

\* ------------------------------------------------------------------------
\* decomposition_equation_resolution (material_decomposition.py)
\* ------------------------------------------------------------------------
\* images.shape[0]
number_of_energies == Len(images)

\* densities.size
number_of_materials == Len(densities)

\* images[0, :].shape
ImageHeight == Len(images[1])

ImageWidth == Len(images[1][1])

\* images[0, :].size
NbVoxels == ImageHeight * ImageWidth

\* number_of_energies + volume_fraction_hypothesis * 1
NbEquations == number_of_energies + (IF volume_fraction_hypothesis THEN 1 ELSE 0)

\* image.flatten(): C (row-major) order
Flatten(image) ==
    LET w == Len(image[1])
    IN  [i \in 1..(Len(image) * w) |-> image[((i - 1) \div w) + 1][((i - 1) % w) + 1]]

\* mutant: the column laid out in Fortran (column-major) order
Reshape_ColumnMajor(column, h, w) ==
    [r \in 1..h |-> [c \in 1..w |-> column[(c - 1) * h + r]]]

\* np.reshape(column, (h, w)): C (row-major) order
Reshape(column, h, w) == [r \in 1..h |-> [c \in 1..w |-> column[(r - 1) * w + c]]]

\* numpy broadcasting of a 2D source onto a (k, p) target slice
Broadcastable(src, k, p) ==
    /\ NRows(src) = k \/ NRows(src) = 1
    /\ NCols(src) = p \/ NCols(src) = 1

Broadcast(src, k, p) ==
    [i \in 1..k |-> [j \in 1..p |->
        src[IF NRows(src) = 1 THEN 1 ELSE i][IF NCols(src) = 1 THEN 1 ELSE j]]]

\* mutant: the matrix allocated with np.zeros, so the constraint row is 0
SystemMatrix_ZeroRow(att, k, p, vfh) ==
    LET b == Broadcast(att, k, p)
    IN  [i \in 1..(k + (IF vfh THEN 1 ELSE 0)) |-> [j \in 1..p |->
            IF i <= k THEN b[i][j] ELSE 0]]

\* lines 299-301: np.ones((K + c, P)) with rows 0..K-1 overwritten
SystemMatrix(att, k, p, vfh) ==
    LET b == Broadcast(att, k, p)
    IN  [i \in 1..(k + (IF vfh THEN 1 ELSE 0)) |-> [j \in 1..p |->
            IF i <= k THEN b[i][j] ELSE 1]]

\* lines 302-305: np.ones((K + c, V)), row e overwritten by image e flattened,
\* then transposed: one right-hand side per voxel
VectorMatrix(imgs, vfh) ==
    LET k    == Len(imgs)
        v    == Len(imgs[1]) * Len(imgs[1][1])
        flat == [e \in 1..k |-> Flatten(imgs[e])]
        rows == [e \in 1..(k + (IF vfh THEN 1 ELSE 0)) |-> [i \in 1..v |->
                    IF e <= k THEN flat[e][i] ELSE 1]]
    IN  Transpose(rows)

\* mutant: the g/mL to g/L factor forgotten
ScaleValue_NoThousand(x, density) == Float32(RMul(x, density))

\* line 334: (solution * density * 1000.0).astype(np.float32)
ScaleValue(x, density) == Float32(RMul(RMul(x, density), Z(1000)))

\* densities_dict of material_decomposition_pipeline (g/mL): I, Ba, Gd, Au
DensityTable == << <<493, 100>>, <<7, 2>>, <<79, 10>>, <<193, 10>> >>

WaterDensity == <<1, 1>>

\* the density vector of a test case: materials first, water last
DensityVector(p, seed) ==
    [m \in 1..p |-> IF m = p THEN WaterDensity
                    ELSE DensityTable[((m + seed - 1) % Len(DensityTable)) + 1]]

\* attenuation coefficient of material m at energy e in a test matrix
AttEntry(kind, e, m) ==
    IF kind = "singular" THEN 2
    ELSE IF e = m THEN 3 ELSE IF e < m THEN 1 ELSE 2

AttMatrix(kind, ka, pa) == [e \in 1..ka |-> [m \in 1..pa |-> AttEntry(kind, e, m)]]

\* largest pixel value of a test image
MaxPix == 4

\* pixel value of energy image e at row r, column c (w columns) in a test case
Pixel(seed, e, r, c, w) == (e * ((r - 1) * w + c) + seed) % (MaxPix + 1)

\* the shapes a caller may hand in for K images and P densities: the K x P
\* matrix the docstring asks for, or a malformed one
AttShapes(k, p) == {<<k, p>>, <<1, p>>, <<k, 1>>, <<k + 1, p>>, <<k, p + 1>>}

\* no call of apply_rotation_pipeline in progress
PipIdle ==
    /\ pip_pc = "idle"
    /\ pip_args = <<>>
    /\ pip_image = <<>>

\* none of the functions specified after the first three is in progress
\* no call of count_the_needed_translation_for_black_slices in progress
BlkIdle ==
    /\ blk_pc = "idle"
    /\ blk_image = <<>>
    /\ nb_slice = 0
    /\ front_offset = 0
    /\ bottom_offset = 0
    /\ slice_of_image = <<>>
    /\ blk_result = <<>>

\* no call of symmetry_based_registration in progress
SymIdle ==
    /\ sym_pc = "idle"
    /\ sym_args = <<>>
    /\ skull_bounding_box = <<>>
    /\ image_to_study = <<>>
    /\ skull_to_study = <<>>
    /\ saved_sequences = <<>>
    /\ sym_i = 0
    /\ diff = <<1, 1>>
    /\ correct_angle = <<0, 1>>
    /\ cross_correlation_min = <<>>
    /\ cross_correlation_argmin = -1
    /\ angles_evaluated = <<>>
    /\ half_widths = <<>>
    /\ sym_result = <<>>
    /\ sym_raised = "none"

\* no call of straight_triangle_rotation in progress
TriIdle ==
    /\ tri_pc = "idle"
    /\ tri_args = <<>>
    /\ skull_center = <<>>
    /\ jaws_vector = <<>>
    /\ triangle_angle = <<>>
    /\ tri_result = <<>>

\* no call of straight_throat_rotation in progress
ThrIdle ==
    /\ thr_pc = "idle"
    /\ throat_mask_img = <<>>
    /\ centroid_list = <<>>
    /\ vectors_list = <<>>
    /\ list_of_ys = <<>>
    /\ list_of_xs = <<>>
    /\ total_vector = <<>>
    /\ current_vector = <<>>
    /\ thr_tests = <<>>
    /\ direction_vector = <<>>
    /\ throat_coordinates = <<>>
    /\ thr_raised = "none"

\* no call of material_decomposition_pipeline in progress
MdpIdle ==
    /\ mdp_pc = "idle"
    /\ checking_folders = <<>>
    /\ folder_files = <<>>
    /\ list_of_materials = <<>>
    /\ list_of_energies = <<>>
    /\ list_of_input_folders = <<>>
    /\ list_of_min_max = <<>>
    /\ attenuations_array = <<>>
    /\ list_of_densities = <<>>
    /\ nb_of_filenames = <<>>
    /\ total_filenames_nb = 0
    /\ reference_shape = <<>>
    /\ list_of_output_folders = <<>>
    /\ slice_nb = 0
    /\ created_directories = <<>>
    /\ opened = <<>>
    /\ progress = <<>>
    /\ saved = <<>>
    /\ printed = <<>>
    /\ mdp_raised = "none"

AttIdle ==
    /\ att_pc = "idle"
    /\ att_args = <<>>
    /\ att_result = <<>>

TifIdle ==
    /\ tif_pc = "idle"
    /\ tif_data = <<>>
    /\ minIm = <<>>
    /\ maxIm = <<>>
    /\ datatoStore = <<>>
    /\ tif_written = <<>>

LkpIdle == AttIdle /\ TifIdle

ExtIdle == TriIdle /\ ThrIdle /\ MdpIdle /\ LkpIdle

RegIdle == PipIdle /\ BlkIdle /\ SymIdle /\ ExtIdle

RotIdle ==
    /\ rot_pc = "idle"
    /\ rot_args = <<>>
    /\ moving_vector = <<>>
    /\ ref_vector = <<>>
    /\ rot_result = None

CenIdle ==
    /\ cen_pc = "idle"
    /\ mask = <<>>
    /\ regions = <<>>
    /\ cen_result = None
    /\ cen_raised = NoException

DecInputs ==
    \E k \in 1..MaxK, p \in 1..MaxP, vfh \in BOOLEAN, h \in 1..MaxH, w \in 1..MaxW,
       seed \in 0..MaxSeed, kind \in {"regular", "singular"} :
      \E shape \in AttShapes(k, p) :
        /\ kind = "singular" => shape = <<k, p>>
        /\ LET att == AttMatrix(kind, shape[1], shape[2])
               eqs == k + (IF vfh THEN 1 ELSE 0)
           IN  /\ (Broadcastable(att, k, p) /\ eqs # p)
                     => FullRank(SystemMatrix(att, k, p, vfh))
               /\ material_attenuations = att
        /\ images = [e \in 1..k |-> [r \in 1..h |-> [c \in 1..w |->
                        Pixel(seed, e, r, c, w)]]]
        /\ densities = DensityVector(p, seed)
        /\ volume_fraction_hypothesis = vfh

DecInit ==
    /\ DecInputs
    /\ pc = "entry"
    /\ system_2d_matrix = None
    /\ vector_2d_matrix = None
    /\ solution_matrix = [ndim |-> 0, data |-> <<>>]
    /\ nb = 0
    /\ material_index = 0
    /\ concentration_maps = None
    /\ raised = NoException
    /\ linalg_calls = <<>>

Init == DecInit /\ RotIdle /\ CenIdle /\ RegIdle

decInputs == <<images, densities, material_attenuations, volume_fraction_hypothesis>>

\* lines 299-301: the coefficient matrix; the slice assignment raises
\* ValueError when material_attenuations does not broadcast to (K, P)
BuildSystem ==
    /\ pc = "entry"
    /\ IF Broadcastable(material_attenuations, number_of_energies, number_of_materials)
       THEN /\ system_2d_matrix' = SystemMatrix(material_attenuations, number_of_energies,
                                                number_of_materials,
                                                volume_fraction_hypothesis)
            /\ pc' = "vectors"
            /\ raised' = raised
       ELSE /\ raised' = "ValueError"
            /\ pc' = "raised"
            /\ system_2d_matrix' = system_2d_matrix
    /\ UNCHANGED <<decInputs, vector_2d_matrix, solution_matrix, nb, material_index,
                   concentration_maps, linalg_calls>>
    /\ UNCHANGED <<rotVars, cenVars, regVars>>

\* lines 302-305: one right-hand side per voxel
BuildVectors ==
    /\ pc = "vectors"
    /\ vector_2d_matrix' = VectorMatrix(images, volume_fraction_hypothesis)
    /\ pc' = "branch"
    /\ UNCHANGED <<decInputs, system_2d_matrix, solution_matrix, nb, material_index,
                   concentration_maps, raised, linalg_calls>>
    /\ UNCHANGED <<rotVars, cenVars, regVars>>

\* mutant: the constraint row left out of the equation count
ExactBranch_IgnoresConstraint == number_of_energies = number_of_materials

\* line 308: the test that selects the solver
ExactBranch == NbEquations = number_of_materials

\* lines 308-310: one stacked np.linalg.solve over all voxels; a matrix that
\* is singular (or not square) raises LinAlgError
SolveExact ==
    /\ pc = "branch"
    /\ ExactBranch
    /\ linalg_calls' = Append(linalg_calls, "solve")
    /\ IF NRows(system_2d_matrix) # NCols(system_2d_matrix) \/ Det(system_2d_matrix) = 0
       THEN /\ raised' = "LinAlgError"
            /\ pc' = "raised"
            /\ solution_matrix' = solution_matrix
       ELSE /\ solution_matrix' =
                  [ndim |-> 2,
                   data |-> [v \in 1..NbVoxels |->
                                SolveSquare(system_2d_matrix, vector_2d_matrix[v])]]
            /\ pc' = "alloc"
            /\ raised' = raised
    /\ UNCHANGED <<decInputs, system_2d_matrix, vector_2d_matrix, nb, material_index,
                   concentration_maps>>
    /\ UNCHANGED <<rotVars, cenVars, regVars>>

\* lines 319-326: the accumulation of one voxel's solution
Accumulate(sm, sv) ==
    IF sm.ndim # 0
    THEN IF sm.ndim = 2
         THEN [ndim |-> 2, data |-> Append(sm.data, sv)]
         ELSE [ndim |-> 2, data |-> <<sm.data, sv>>]
    ELSE [ndim |-> 1, data |-> sv]

\* lines 311-326: one iteration of the per-voxel least-squares loop
LstsqVoxel ==
    /\ pc = "branch"
    /\ ~ExactBranch
    /\ nb < NbVoxels
    /\ linalg_calls' = Append(linalg_calls, "lstsq")
    /\ solution_matrix' = Accumulate(solution_matrix,
                                     LstSq(system_2d_matrix, vector_2d_matrix[nb + 1]))
    /\ nb' = nb + 1
    /\ pc' = IF nb + 1 = NbVoxels THEN "alloc" ELSE "branch"
    /\ UNCHANGED <<decInputs, system_2d_matrix, vector_2d_matrix, material_index,
                   concentration_maps, raised>>
    /\ UNCHANGED <<rotVars, cenVars, regVars>>

\* lines 327-331: np.zeros((P,) + images[0].shape)
AllocateMaps ==
    /\ pc = "alloc"
    /\ concentration_maps' = [m \in 1..number_of_materials |->
                                [r \in 1..ImageHeight |-> [c \in 1..ImageWidth |-> Z(0)]]]
    /\ material_index' = 0
    /\ pc' = "scale"
    /\ UNCHANGED <<decInputs, system_2d_matrix, vector_2d_matrix, solution_matrix, nb,
                   raised, linalg_calls>>
    /\ UNCHANGED <<rotVars, cenVars, regVars>>

\* line 334: column m of the solution scaled in place
ScaleColumn(data, m, density) ==
    [v \in 1..Len(data) |-> [j \in 1..Len(data[v]) |->
        IF j = m THEN ScaleValue(data[v][j], density) ELSE data[v][j]]]

\* solution_matrix[:, m]
Column(data, m) == [v \in 1..Len(data) |-> data[v][m]]

\* lines 333-336: one iteration of the scaling loop; solution_matrix[:, m] on
\* a 1-D array raises IndexError
ScaleMaterial ==
    /\ pc = "scale"
    /\ material_index < Len(densities)
    /\ IF solution_matrix.ndim # 2
       THEN /\ raised' = "IndexError"
            /\ pc' = "raised"
            /\ UNCHANGED <<solution_matrix, concentration_maps, material_index>>
       ELSE LET m      == material_index + 1
                scaled == ScaleColumn(solution_matrix.data, m, densities[m])
            IN  /\ solution_matrix' = [solution_matrix EXCEPT !.data = scaled]
                /\ concentration_maps' =
                      [concentration_maps EXCEPT
                          ![m] = Reshape(Column(scaled, m), ImageHeight, ImageWidth)]
                /\ material_index' = m
                /\ pc' = IF m = Len(densities) THEN "return" ELSE "scale"
                /\ raised' = raised
    /\ UNCHANGED <<decInputs, system_2d_matrix, vector_2d_matrix, nb, linalg_calls>>
    /\ UNCHANGED <<rotVars, cenVars, regVars>>

\* line 337
Return ==
    /\ pc = "return"
    /\ pc' = "returned"
    /\ UNCHANGED <<decInputs, system_2d_matrix, vector_2d_matrix, solution_matrix, nb,
                   material_index, concentration_maps, raised, linalg_calls>>
    /\ UNCHANGED <<rotVars, cenVars, regVars>>

Next ==
    \/ BuildSystem
    \/ BuildVectors
    \/ SolveExact
    \/ LstsqVoxel
    \/ AllocateMaps
    \/ ScaleMaterial
    \/ Return

Spec == Init /\ [][Next]_vars


\* no decomposition call in progress
DecIdle ==
    /\ images = <<>>
    /\ densities = <<>>
    /\ material_attenuations = <<>>
    /\ volume_fraction_hypothesis = FALSE
    /\ pc = "idle"
    /\ system_2d_matrix = None
    /\ vector_2d_matrix = None
    /\ solution_matrix = [ndim |-> 0, data |-> <<>>]
    /\ nb = 0
    /\ material_index = 0
    /\ concentration_maps = None
    /\ raised = NoException
    /\ linalg_calls = <<>>

\* ------------------------------------------------------------------------
\* calculate_rotation_matrix_between_3d_vectors (registration.py)
\* ------------------------------------------------------------------------
\* sum of the squares of an integer vector
SumSquares(v) == SumTo([i \in 1..Len(v) |-> v[i] * v[i]], Len(v))

\* np.linalg.norm of an integer vector whose squared norm is a perfect square
IntNorm(v) == Z(ISqrt(SumSquares(v)))

\* the integer vectors of the test cases: components within MaxComp and a
\* rational norm (the zero vector included)
TestVectors ==
    {v \in [1..3 -> (-MaxComp)..MaxComp] : IsSquare(SumSquares(v))}

\* np.dot of two float vectors
RDot(u, w) == RSumTo([i \in 1..Len(u) |-> RMul(u[i], w[i])], Len(u))

\* np.cross of two 3D float vectors
RCross(u, w) ==
    << RSub(RMul(u[2], w[3]), RMul(u[3], w[2])),
       RSub(RMul(u[3], w[1]), RMul(u[1], w[3])),
       RSub(RMul(u[1], w[2]), RMul(u[2], w[1])) >>

\* product of two 3 x 3 float matrices
RMatMul(A, B) ==
    [i \in 1..3 |-> [j \in 1..3 |-> RSumTo([k \in 1..3 |-> RMul(A[i][k], B[k][j])], 3)]]

\* np.eye(3)
Eye3 == [i \in 1..3 |-> [j \in 1..3 |-> IF i = j THEN Z(1) ELSE Z(0)]]

\* lines 94-104: Rodrigues' formula on two normalized vectors; normalized ** 2
\* is the squared norm of the cross product
RodriguesMatrix(u, w) ==
    LET scalar         == RDot(u, w)
        cross          == RCross(u, w)
        normalized_sq  == RDot(cross, cross)
        trans_matrix   == << <<Z(0), RNeg(cross[3]), cross[2]>>,
                             <<cross[3], Z(0), RNeg(cross[1])>>,
                             <<RNeg(cross[2]), cross[1], Z(0)>> >>
        factor         == RDiv(RSub(Z(1), scalar), normalized_sq)
        square         == RMatMul(trans_matrix, trans_matrix)
    IN  [i \in 1..3 |-> [j \in 1..3 |->
            RAdd(RAdd(Eye3[i][j], trans_matrix[i][j]), RMul(square[i][j], factor))]]

RotInputs ==
    /\ moving_vector \in {[i \in 1..3 |-> Z(v[i])] : v \in TestVectors}
    /\ ref_vector \in {[i \in 1..3 |-> Z(v[i])] : v \in TestVectors}
    /\ rot_args = <<moving_vector, ref_vector>>

RotInit ==
    /\ RotInputs
    /\ rot_pc = "entry"
    /\ rot_result = None

\* the numerators of an integer-valued float vector
IntsOf(v) == [i \in 1..Len(v) |-> v[i][1]]

\* lines 91-92: both vectors divided by their norms
NormalizeVectors ==
    /\ rot_pc = "entry"
    /\ moving_vector' = [i \in 1..3 |-> RDiv(moving_vector[i], IntNorm(IntsOf(moving_vector)))]
    /\ ref_vector' = [i \in 1..3 |-> RDiv(ref_vector[i], IntNorm(IntsOf(ref_vector)))]
    /\ rot_pc' = "normalized"
    /\ UNCHANGED <<rot_args, rot_result>>
    /\ UNCHANGED <<decVars, cenVars, regVars>>

\* lines 94-104: the matrix is computed and returned
ReturnRotationMatrix ==
    /\ rot_pc = "normalized"
    /\ rot_result' = RodriguesMatrix(moving_vector, ref_vector)
    /\ rot_pc' = "returned"
    /\ UNCHANGED <<rot_args, moving_vector, ref_vector>>
    /\ UNCHANGED <<decVars, cenVars, regVars>>

RotNext ==
    \/ NormalizeVectors
    \/ ReturnRotationMatrix

\* only the rotation call is in progress
InitRotation == DecIdle /\ RotInit /\ CenIdle /\ RegIdle

SpecRotation == InitRotation /\ [][RotNext]_vars

\* ------------------------------------------------------------------------
\* retrieve_throat_centroid (registration.py)
\* ------------------------------------------------------------------------
\* the pixels <<row, col>> (0-based) of a 2D mask that are not background
Foreground(m) ==
    {px \in (0..(Len(m) - 1)) \X (0..(Len(m[1]) - 1)) : m[px[1] + 1][px[2] + 1] # 0}

\* neighbours under skimage's default connectivity for 2D input (8-connected)
Adjacent(a, b) == a # b /\ Abs(a[1] - b[1]) <= 1 /\ Abs(a[2] - b[2]) <= 1

RECURSIVE Grow(_, _)
\* the connected component of `part` within `pixels`
Grow(part, pixels) ==
    LET more == {px \in pixels \ part : \E q \in part : Adjacent(px, q)}
    IN  IF more = {} THEN part ELSE Grow(part \cup more, pixels)

\* the first pixel of a non-empty set in raster order
FirstPixel(pixels) ==
    CHOOSE px \in pixels :
        \A q \in pixels : px[1] < q[1] \/ (px[1] = q[1] /\ px[2] <= q[2])

RECURSIVE Components(_)
\* the connected components of a pixel set, in label order (raster order of
\* their first pixels)
Components(pixels) ==
    IF pixels = {} THEN <<>>
    ELSE LET comp == Grow({FirstPixel(pixels)}, pixels)
         IN  <<comp>> \o Components(pixels \ comp)

\* mutant: the background labelled as a region too (label(mask, background=-1))
LabelledRegions_WithBackground(m) ==
    Components((0..(Len(m) - 1)) \X (0..(Len(m[1]) - 1)))

\* lines 164-165: regionprops(label(mask)), one pixel set per labelled region
LabelledRegions(m) == Components(Foreground(m))

RECURSIVE SumCoord(_, _)
\* the sum of coordinate k over a pixel set
SumCoord(pixels, k) ==
    IF pixels = {} THEN 0
    ELSE LET px == CHOOSE q \in pixels : TRUE
         IN  px[k] + SumCoord(pixels \ {px}, k)

\* region.centroid: the mean (row, col) of the region's pixels
Centroid(region) ==
    << Q(SumCoord(region, 1), Cardinality(region)),
       Q(SumCoord(region, 2), Cardinality(region)) >>

CenInit ==
    /\ \E h \in 1..MaxMaskH, w \in 1..MaxMaskW :
          mask \in [1..h -> [1..w -> {0, 1}]]
    /\ cen_pc = "entry"
    /\ regions = <<>>
    /\ cen_result = None
    /\ cen_raised = NoException

\* lines 164-165
LabelMask ==
    /\ cen_pc = "entry"
    /\ regions' = LabelledRegions(mask)
    /\ cen_pc' = "labelled"
    /\ UNCHANGED <<mask, cen_result, cen_raised>>
    /\ UNCHANGED <<decVars, rotVars, regVars>>

\* line 166: regions[0].centroid; regions[0] of an empty list raises IndexError
ReturnCentroid ==
    /\ cen_pc = "labelled"
    /\ IF Len(regions) = 0
       THEN /\ cen_raised' = "IndexError"
            /\ cen_pc' = "raised"
            /\ cen_result' = cen_result
       ELSE /\ cen_result' = Centroid(regions[1])
            /\ cen_pc' = "returned"
            /\ cen_raised' = cen_raised
    /\ UNCHANGED <<mask, regions>>
    /\ UNCHANGED <<decVars, rotVars, regVars>>

CenNext ==
    \/ LabelMask
    \/ ReturnCentroid

\* only the centroid call is in progress
InitCentroid == DecIdle /\ RotIdle /\ CenInit /\ RegIdle

SpecCentroid == InitCentroid /\ [][CenNext]_vars

\* ------------------------------------------------------------------------
\* Resampled images.  SimpleITK's resampling is outside the source; an image
\* is modelled by its shape (depth, height, width) and the resampling
\* operations that produced it from an original image, in order.  An angle
\* is stored as its coefficient of pi (a float: q stands for q . pi radians).
\* ------------------------------------------------------------------------
\* an image as the caller supplies it
OriginalImage(shape) == [shape |-> shape, ops |-> <<>>]

\* int(x) for a finite float x: truncation towards zero
IntOf(x) == Sign(x[1]) * (Abs(x[1]) \div x[2])

\* compute_2d_rotation(image, angle, interpolator_type): same shape, rotation
\* about (width / 2, height / 2, 0)
compute_2d_rotation(image, angle, interpolator_type) ==
    [shape |-> image.shape,
     ops   |-> Append(image.ops,
                  [fn           |-> "compute_2d_rotation",
                   angle        |-> angle,
                   center       |-> <<Q(image.shape[3], 2), Q(image.shape[2], 2), Z(0)>>,
                   interpolator |-> interpolator_type])]

\* compute_3d_rotation(image, rotation_matrix, center_of_rotation, translation,
\* size_change): the output has depth int(depth * size_change)
compute_3d_rotation(image, rotation_matrix, center_of_rotation, translation, size_change) ==
    [shape |-> <<IntOf(RMul(Z(image.shape[1]), size_change)), image.shape[2], image.shape[3]>>,
     ops   |-> Append(image.ops,
                  [fn          |-> "compute_3d_rotation",
                   matrix      |-> rotation_matrix,
                   center      |-> center_of_rotation,
                   translation |-> translation,
                   size_change |-> size_change])]

\* ------------------------------------------------------------------------
\* apply_rotation_pipeline (registration.py)
\* ------------------------------------------------------------------------
\* a rotation of a quarter turn about the z axis
QuarterTurnZ == << <<Z(0), Z(-1), Z(0)>>, <<Z(1), Z(0), Z(0)>>, <<Z(0), Z(0), Z(1)>> >>

\* the angles of the test cases, as coefficients of pi
TestAngles == {Z(0), Q(1, 180), Q(-1, 2), Z(1)}

\* mutant: the offset applied along the first axis
OffsetTranslation_AlongX(binned_offset) == <<binned_offset, Z(0), Z(0)>>

\* line 498: translation=np.array([0, 0, binned_offset])
OffsetTranslation(binned_offset) == <<Z(0), Z(0), binned_offset>>

\* line 498: size_change=1.5
PipelineSizeChange == Q(3, 2)

PipInit ==
    /\ pip_pc = "step1"
    /\ \E depth \in 1..MaxDepth, height \in 1..2, width \in 1..2 :
       \E a \in TestAngles, c \in TestAngles :
       \E m \in {Eye3, QuarterTurnZ}, offset \in (-MaxOffset)..MaxOffset :
       \E throat \in {<<Z(0), Z(0), Z(0)>>, <<Z(1), Q(1, 2), Z(0)>>} :
          pip_args = [image                    |-> OriginalImage(<<depth, height, width>>),
                      local_triangle_angle     |-> a,
                      rotation_matrix          |-> m,
                      local_throat_coordinates |-> throat,
                      binned_offset            |-> Z(offset),
                      symmetry_angle           |-> c]
    /\ pip_image = pip_args.image

\* line 494
PipStep1 ==
    /\ pip_pc = "step1"
    /\ pip_image' = compute_2d_rotation(pip_image, pip_args.local_triangle_angle, "linear")
    /\ pip_pc' = "step2"
    /\ UNCHANGED pip_args
    /\ UNCHANGED <<decVars, rotVars, cenVars, extVars, blkVars, symVars>>

\* lines 497-498
PipStep2 ==
    /\ pip_pc = "step2"
    /\ pip_image' = compute_3d_rotation(pip_image, pip_args.rotation_matrix,
                                        pip_args.local_throat_coordinates,
                                        OffsetTranslation(pip_args.binned_offset),
                                        PipelineSizeChange)
    /\ pip_pc' = "step3"
    /\ UNCHANGED pip_args
    /\ UNCHANGED <<decVars, rotVars, cenVars, extVars, blkVars, symVars>>

\* line 501
PipStep3 ==
    /\ pip_pc = "step3"
    /\ pip_image' = compute_2d_rotation(pip_image, pip_args.symmetry_angle, "linear")
    /\ pip_pc' = "return"
    /\ UNCHANGED pip_args
    /\ UNCHANGED <<decVars, rotVars, cenVars, extVars, blkVars, symVars>>

\* line 504
PipReturn ==
    /\ pip_pc = "return"
    /\ pip_pc' = "returned"
    /\ UNCHANGED <<pip_args, pip_image>>
    /\ UNCHANGED <<decVars, rotVars, cenVars, extVars, blkVars, symVars>>

PipNext ==
    \/ PipStep1
    \/ PipStep2
    \/ PipStep3
    \/ PipReturn

\* only apply_rotation_pipeline is in progress
InitPipeline == DecIdle /\ RotIdle /\ CenIdle /\ PipInit /\ BlkIdle /\ SymIdle /\ ExtIdle

SpecPipeline == InitPipeline /\ [][PipNext]_vars

\* ------------------------------------------------------------------------
\* count_the_needed_translation_for_black_slices (registration.py)
\* A volume is a sequence of slices, a slice a sequence of rows of pixels.
\* ------------------------------------------------------------------------
\* (slice_of_image == 0).sum()
ZeroCount(slice) ==
    SumTo([r \in 1..Len(slice) |->
              SumTo([c \in 1..Len(slice[r]) |-> IF slice[r][c] = 0 THEN 1 ELSE 0],
                    Len(slice[r]))],
          Len(slice))

\* slice_of_image.size
SliceSize(slice) == Len(slice) * Len(slice[1])

\* lines 183 and 191: (slice_of_image == 0).sum() > slice_of_image.size * 0.5
MostlyZero(slice) == 2 * ZeroCount(slice) > SliceSize(slice)

\* image[n] for a 0-based index n >= 0
SliceAt(image, n) == image[n + 1]

\* the volumes of the test cases: up to MaxDepth slices of one row
TestVolumes ==
    UNION {[1..d -> [1..1 -> [1..w -> {0, 1}]]] : d \in 1..MaxDepth, w \in 1..MaxW}

\* lines 179-181
BlkInit ==
    /\ blk_image \in TestVolumes
    /\ blk_pc = "front"
    /\ nb_slice = 0
    /\ front_offset = 0
    /\ bottom_offset = 0
    /\ slice_of_image = SliceAt(blk_image, 0)
    /\ blk_result = <<>>

\* line 183: the condition of the first loop
FrontCondition == MostlyZero(slice_of_image) /\ nb_slice < Len(blk_image)

\* lines 183-186: one iteration of the first loop
BlkFrontStep ==
    /\ blk_pc = "front"
    /\ FrontCondition
    /\ front_offset' = front_offset + 1
    /\ slice_of_image' = SliceAt(blk_image, nb_slice)
    /\ nb_slice' = nb_slice + 1
    /\ UNCHANGED <<blk_pc, blk_image, bottom_offset, blk_result>>
    /\ UNCHANGED <<decVars, rotVars, cenVars, extVars, pipVars, symVars>>

\* lines 183, 188-190: the first loop ends, the second is set up
BlkFrontExit ==
    /\ blk_pc = "front"
    /\ ~FrontCondition
    /\ nb_slice' = Len(blk_image) - 1
    /\ slice_of_image' = SliceAt(blk_image, Len(blk_image) - 1)
    /\ blk_pc' = "back"
    /\ UNCHANGED <<blk_image, front_offset, bottom_offset, blk_result>>
    /\ UNCHANGED <<decVars, rotVars, cenVars, extVars, pipVars, symVars>>

\* line 191: the condition of the second loop
BackCondition == MostlyZero(slice_of_image) /\ nb_slice >= 0

\* lines 191-194: one iteration of the second loop
BlkBackStep ==
    /\ blk_pc = "back"
    /\ BackCondition
    /\ bottom_offset' = bottom_offset + 1
    /\ slice_of_image' = SliceAt(blk_image, nb_slice)
    /\ nb_slice' = nb_slice - 1
    /\ UNCHANGED <<blk_pc, blk_image, front_offset, blk_result>>
    /\ UNCHANGED <<decVars, rotVars, cenVars, extVars, pipVars, symVars>>

\* lines 191, 196: the second loop ends, both counts are returned
BlkReturn ==
    /\ blk_pc = "back"
    /\ ~BackCondition
    /\ blk_result' = <<front_offset, bottom_offset>>
    /\ blk_pc' = "returned"
    /\ UNCHANGED <<blk_image, nb_slice, front_offset, bottom_offset, slice_of_image>>
    /\ UNCHANGED <<decVars, rotVars, cenVars, extVars, pipVars, symVars>>

BlkNext ==
    \/ BlkFrontStep
    \/ BlkFrontExit
    \/ BlkBackStep
    \/ BlkReturn

\* only count_the_needed_translation_for_black_slices is in progress
InitBlackSlices == DecIdle /\ RotIdle /\ CenIdle /\ PipIdle /\ BlkInit /\ SymIdle /\ ExtIdle

SpecBlackSlices == InitBlackSlices /\ [][BlkNext]_vars

\* ------------------------------------------------------------------------
\* symmetry_based_registration (registration.py)
\* ------------------------------------------------------------------------
Min(a, b) == IF a < b THEN a ELSE b

Max(a, b) == IF a > b THEN a ELSE b

\* a Python slice bound on a sequence of length n: negative bounds count
\* from the end, and the result is clamped to 0..n
SliceBound(k, n) == IF k < 0 THEN Max(k + n, 0) ELSE Min(k, n)

\* seq[start:stop]
PySlice(seq, start, stop) ==
    SubSeq(seq, SliceBound(start, Len(seq)) + 1, SliceBound(stop, Len(seq)))

\* seq[::-1]
Reversed(seq) == [j \in 1..Len(seq) |-> seq[Len(seq) + 1 - j]]

\* total comparison of finite floats: a < b
RLess(a, b) == a[1] * b[2] < b[1] * a[2]

RECURSIVE FrontLoop(_, _, _, _)
\* lines 183-186 run to completion
FrontLoop(image, slice, n, offset) ==
    IF MostlyZero(slice) /\ n < Len(image)
    THEN FrontLoop(image, SliceAt(image, n), n + 1, offset + 1)
    ELSE offset

RECURSIVE BackLoop(_, _, _, _)
\* lines 191-194 run to completion
BackLoop(image, slice, n, offset) ==
    IF MostlyZero(slice) /\ n >= 0
    THEN BackLoop(image, SliceAt(image, n), n - 1, offset + 1)
    ELSE offset

\* count_the_needed_translation_for_black_slices(image) as a function
BlackSliceCounts(image) ==
    << FrontLoop(image, SliceAt(image, 0), 0, 0),
       BackLoop(image, SliceAt(image, Len(image) - 1), Len(image) - 1, 0) >>

\* volume[:, box[2]:box[3] + 1, box[0]:box[1] + 1] for a box <<x0, x1, y0, y1>>
Crop(volume, box) ==
    [z \in 1..Len(volume) |->
        LET rows == PySlice(volume[z], box[3], box[4] + 1)
        IN  [r \in 1..Len(rows) |-> PySlice(rows[r], box[1], box[2] + 1)]]

\* the outcomes of resampling a volume rotated by an angle: the volume
\* itself for the identity, an all-zero volume for an all-zero one, any
\* binary volume of the same shape otherwise
Resampled(volume, angle) ==
    IF angle = Z(0) \/ \A z \in 1..Len(volume) : ZeroCount(volume[z]) = SliceSize(volume[z])
    THEN {volume}
    ELSE [1..Len(volume) -> [1..Len(volume[1]) -> [1..Len(volume[1][1]) -> {0, 1}]]]

\* row[int(width / 2):width] of a cropped row (lines 399 and 406)
PlainHalf(row) == PySlice(row, Len(row) \div 2, Len(row))

\* the same columns of the flipped row (lines 397-398 and 404-405)
FlippedHalf(row) == PySlice(Reversed(row), Len(row) \div 2, Len(row))

\* lines 408-415 on one row: the positions where the two masked skull halves
\* differ
RowCount(image_row, skull_row) ==
    LET left_half_image  == PlainHalf(image_row)
        right_half_image == FlippedHalf(image_row)
        left_half_skull  == [j \in 1..Len(FlippedHalf(skull_row)) |->
                                IF left_half_image[j] = 0 THEN 0
                                ELSE FlippedHalf(skull_row)[j]]
        right_half_skull == [j \in 1..Len(PlainHalf(skull_row)) |->
                                IF right_half_image[j] = 0 THEN 0
                                ELSE PlainHalf(skull_row)[j]]
    IN  Cardinality({j \in 1..Len(left_half_skull) : right_half_skull[j] # left_half_skull[j]})

\* lines 411-413, 417 on one row: the positions where neither image half is 0
RowValid(image_row) ==
    Cardinality({j \in 1..Len(PlainHalf(image_row)) :
                    PlainHalf(image_row)[j] # 0 /\ FlippedHalf(image_row)[j] # 0})

\* the pairs <<z, r>> of slice and row indices of a cropped volume
RowsOf(volume) == {zr \in (1..Len(volume)) \X (1..Len(volume[1])) : TRUE}

RECURSIVE SumOver(_, _)
\* the sum of f over a finite set
SumOver(f, S) ==
    IF S = {} THEN 0
    ELSE LET x == CHOOSE y \in S : TRUE IN f[x] + SumOver(f, S \ {x})

\* line 415: count
SubtractionCount(cropped_image, cropped_skull) ==
    SumOver([zr \in RowsOf(cropped_image) |->
                RowCount(cropped_image[zr[1]][zr[2]], cropped_skull[zr[1]][zr[2]])],
            RowsOf(cropped_image))

\* line 417: len(number_of_zeros[number_of_zeros == 0])
ComparedCount(cropped_image) ==
    SumOver([zr \in RowsOf(cropped_image) |-> RowValid(cropped_image[zr[1]][zr[2]])],
            RowsOf(cropped_image))

\* mutant: the candidates one degree further to the positive side
CandidateAngle_Shifted(number_of_iterations, i) == Q(-number_of_iterations + i + 1, 180)

\* line 386: float(-number_of_iterations + i) / 180 * math.pi, as a
\* coefficient of pi
CandidateAngle(number_of_iterations, i) == Q(-number_of_iterations + i, 180)

\* mutant: a candidate as good as the best one replaces it
Improves_OrEqual(normalized_value, best) == ~RLess(best, normalized_value)

\* line 421: diff > normalized_value
Improves(normalized_value, best) == RLess(normalized_value, best)

\* mutant: both bounds moved
Recentered_BothBounds(box, throat_x) ==
    IF throat_x - box[1] > box[2] - throat_x
    THEN [box EXCEPT ![2] = box[1] + (throat_x - box[1]) * 2, ![1] = box[1] + 1]
    ELSE [box EXCEPT ![1] = box[2] - (box[2] - throat_x) * 2]

\* lines 362-365 for integer coordinates: the bound further from the throat
\* is kept, the other one is moved
Recentered(box, throat_x) ==
    IF throat_x - box[1] > box[2] - throat_x
    THEN [box EXCEPT ![2] = box[1] + (throat_x - box[1]) * 2]
    ELSE [box EXCEPT ![1] = box[2] - (box[2] - throat_x) * 2]

\* the single-slice, single-row images and skull masks of the test cases
SymTestImages == { << << <<1, 1, 1>> >> >>, << << <<1, 1, 0>> >> >> }

SymTestSkulls ==
    { << << <<0, 0, 0>> >> >>, << << <<1, 1, 1>> >> >>,
      << << <<1, 0, 0>> >> >>, << << <<0, 1, 0>> >> >> }

SymInit ==
    /\ sym_pc = "recenter"
    /\ \E n \in 1..MaxN, x0 \in 0..MaxBox, x1 \in 0..MaxBox :
       \E tx \in x0..x1, img \in SymTestImages, sk \in SymTestSkulls :
          /\ x0 <= x1
          /\ n = 1 \/ (x0 = 0 /\ x1 = 2 /\ tx = 1)
          /\ sym_args = [image                |-> img,
                         skull                |-> sk,
                         skull_bounding_box   |-> <<x0, x1, 0, 0>>,
                         throat_coordinates   |-> <<tx, 0, 0>>,
                         number_of_iterations |-> n]
    /\ skull_bounding_box = sym_args.skull_bounding_box
    /\ image_to_study = <<>>
    /\ skull_to_study = <<>>
    /\ saved_sequences = <<>>
    /\ sym_i = 0
    /\ diff = Z(1)
    /\ correct_angle = Z(0)
    /\ cross_correlation_min = <<>>
    /\ cross_correlation_argmin = -1
    /\ angles_evaluated = <<>>
    /\ half_widths = <<>>
    /\ sym_result = <<>>
    /\ sym_raised = NoException

\* lines 362-365: the caller's bounding-box array is written in place
SymRecenter ==
    /\ sym_pc = "recenter"
    /\ skull_bounding_box' = Recentered(skull_bounding_box, sym_args.throat_coordinates[1])
    /\ sym_pc' = "study"
    /\ UNCHANGED <<sym_args, image_to_study, skull_to_study, saved_sequences, sym_i, diff,
                   correct_angle, cross_correlation_min, cross_correlation_argmin,
                   angles_evaluated, half_widths, sym_result, sym_raised>>
    /\ UNCHANGED <<decVars, rotVars, cenVars, extVars, pipVars, blkVars>>

\* lines 367-382: the slices to study are selected, the search is
\* initialised and the skull to study is saved to the fixed folder
SymSelectStudy ==
    /\ sym_pc = "study"
    /\ LET counts == BlackSliceCounts(sym_args.image)
           depth  == Len(sym_args.image)
           keep   == 2 * (counts[1] + counts[2]) < depth
       IN  /\ image_to_study' =
                 (IF keep THEN PySlice(sym_args.image, counts[1], depth - counts[2])
                  ELSE sym_args.image)
           /\ skull_to_study' =
                 (IF keep THEN PySlice(sym_args.skull, counts[1], depth - counts[2])
                  ELSE sym_args.skull)
    /\ diff' = Z(1)
    /\ correct_angle' = Z(0)
    /\ saved_sequences' = Append(saved_sequences,
                                 [folder |-> "D:\\CT_md1217\\0873_05\\Au\\qsd\\",
                                  slices |-> Len(skull_to_study')])
    /\ sym_i' = 0
    /\ sym_pc' = "search"
    /\ UNCHANGED <<sym_args, skull_bounding_box, cross_correlation_min,
                   cross_correlation_argmin, angles_evaluated, half_widths, sym_result,
                   sym_raised>>
    /\ UNCHANGED <<decVars, rotVars, cenVars, extVars, pipVars, blkVars>>

\* lines 384-423: one candidate angle
SymEvaluateCandidate ==
    /\ sym_pc = "search"
    /\ sym_i < sym_args.number_of_iterations * 2
    /\ LET angle == CandidateAngle(sym_args.number_of_iterations, sym_i)
       IN  \E resulting_image \in Resampled(image_to_study, angle),
              resulting_skull \in Resampled(skull_to_study, angle) :
             LET cropped_image == Crop(resulting_image, skull_bounding_box)
                 cropped_skull == Crop(resulting_skull, skull_bounding_box)
                 count         == SubtractionCount(cropped_image, cropped_skull)
                 compared      == ComparedCount(cropped_image)
                 normalized_value == Q(count, compared)
             IN  /\ angles_evaluated' = Append(angles_evaluated, angle)
                 /\ half_widths' =
                       Append(half_widths,
                              {<<Len(FlippedHalf(cropped_image[zr[1]][zr[2]])),
                                 Len(PlainHalf(cropped_image[zr[1]][zr[2]]))>> :
                                   zr \in RowsOf(cropped_image)})
                 /\ IF compared = 0
                    THEN /\ sym_raised' = "ZeroDivisionError"
                         /\ sym_pc' = "raised"
                         /\ UNCHANGED <<sym_i, diff, correct_angle, cross_correlation_min,
                                        cross_correlation_argmin>>
                    ELSE /\ IF cross_correlation_min = <<>>
                               \/ RLess(normalized_value, cross_correlation_min)
                            THEN /\ cross_correlation_min' = normalized_value
                                 /\ cross_correlation_argmin' = sym_i
                            ELSE UNCHANGED <<cross_correlation_min, cross_correlation_argmin>>
                         /\ IF Improves(normalized_value, diff)
                            THEN /\ correct_angle' = angle
                                 /\ diff' = normalized_value
                            ELSE UNCHANGED <<correct_angle, diff>>
                         /\ sym_i' = sym_i + 1
                         /\ UNCHANGED <<sym_pc, sym_raised>>
    /\ UNCHANGED <<sym_args, skull_bounding_box, image_to_study, skull_to_study,
                   saved_sequences, sym_result>>
    /\ UNCHANGED <<decVars, rotVars, cenVars, extVars, pipVars, blkVars>>

\* lines 424-440: the whole image and skull are rotated by the selected
\* angle, cropped and returned with the angle
SymReturn ==
    /\ sym_pc = "search"
    /\ sym_i >= sym_args.number_of_iterations * 2
    /\ \E resulting_image \in Resampled(sym_args.image, correct_angle),
          resulting_skull \in Resampled(sym_args.skull, correct_angle) :
          sym_result' = << Crop(resulting_image, skull_bounding_box),
                           Crop(resulting_skull, skull_bounding_box),
                           correct_angle >>
    /\ sym_pc' = "returned"
    /\ UNCHANGED <<sym_args, skull_bounding_box, image_to_study, skull_to_study,
                   saved_sequences, sym_i, diff, correct_angle, cross_correlation_min,
                   cross_correlation_argmin, angles_evaluated, half_widths, sym_raised>>
    /\ UNCHANGED <<decVars, rotVars, cenVars, extVars, pipVars, blkVars>>

SymNext ==
    \/ SymRecenter
    \/ SymSelectStudy
    \/ SymEvaluateCandidate
    \/ SymReturn

\* only symmetry_based_registration is in progress
InitSymmetry == DecIdle /\ RotIdle /\ CenIdle /\ PipIdle /\ BlkIdle /\ SymInit /\ ExtIdle

SpecSymmetry == InitSymmetry /\ [][SymNext]_vars

\* ------------------------------------------------------------------------
\* straight_triangle_rotation (registration.py, lines 199-245)
\*
\* Angles are stored as their coefficient of pi. acos, cos and sin are exact
\* for the directions the inputs are drawn from (multiples of pi / 4); where
\* the exact values of a comparison are equal at a non-zero angle, rounding
\* of the floating-point products decides it, and both outcomes are kept.
\* ------------------------------------------------------------------------
MaxJaw == 2

\* the directions of a jaws vector with a non-negative x for which acos is a
\* multiple of pi / 4
ExactDirection(v) == v[1] = 0 \/ v[2] = 0 \/ v[1] = Abs(v[2])

\* math.acos(np.dot(target_vector, jaws_vector) / (norm * norm)) / pi, for
\* target_vector = [norm(jaws_vector), 0]: acos(v[0] / norm(v)); 0 / 0 is nan
AcosOverPi(v) ==
    IF v[1] = 0 /\ v[2] = 0 THEN NaN
    ELSE IF v[2] = 0 THEN Z(0)
    ELSE IF v[1] = 0 THEN Q(1, 2)
    ELSE Q(1, 4)

\* <<cos, sin>> of angle * pi, in units of sqrt(2) / 2 when the angle is an
\* odd multiple of pi / 4
CosSin(angle) ==
    LET m == (angle[1] * (4 \div angle[2])) % 8     \* the angle in units of pi / 4
    IN  CASE m = 0 -> <<1, 0>>
          [] m = 1 -> <<1, 1>>
          [] m = 2 -> <<0, 1>>
          [] m = 3 -> <<-1, 1>>
          [] m = 4 -> <<-1, 0>>
          [] m = 5 -> <<-1, -1>>
          [] m = 6 -> <<0, -1>>
          [] m = 7 -> <<1, -1>>

\* apply_2d_rotation_to_a_vector(vector, angle), lines 29-42; both components
\* are in units of sqrt(2) / 2 when the angle is an odd multiple of pi / 4
apply_2d_rotation_to_a_vector(vector, angle) ==
    IF IsNaN(angle) THEN <<NaN, NaN>>
    ELSE LET c == Z(CosSin(angle)[1])
             s == Z(CosSin(angle)[2])
         IN  <<RSub(RMul(vector[1], c), RMul(vector[2], s)),
               RAdd(RMul(vector[1], s), RMul(vector[2], c))>>

\* mutant: a half turn when the skull comes out above the jaw
NeedsHalfTurn_Reversed(new_jaw_one_to_center_vector, new_skull_to_center_vector) ==
    RLess(new_skull_to_center_vector[2], new_jaw_one_to_center_vector[2])

\* line 239: new_jaw_one_to_center_vector[1] < new_skull_to_center_vector[1]
NeedsHalfTurn(new_jaw_one_to_center_vector, new_skull_to_center_vector) ==
    RLess(new_jaw_one_to_center_vector[2], new_skull_to_center_vector[2])

\* the jaws vector of lines 216-221: from the jaw with the lower x to the other
JawsVector(barycenter_jaw_one, barycenter_jaw_two) ==
    IF barycenter_jaw_one[1] < barycenter_jaw_two[1]
    THEN <<barycenter_jaw_two[1] - barycenter_jaw_one[1],
           barycenter_jaw_two[2] - barycenter_jaw_one[2]>>
    ELSE <<barycenter_jaw_one[1] - barycenter_jaw_two[1],
           barycenter_jaw_one[2] - barycenter_jaw_two[2]>>

TriInit ==
    /\ tri_pc = "align"
    /\ \E height \in {2, 4}, width \in {4} :
       \E x0 \in {0, MaxJaw}, x1 \in {0, MaxJaw}, y0 \in 0..MaxJaw, y1 \in 0..MaxJaw :
       \E one \in (0..MaxJaw) \X (0..MaxJaw), two \in (0..MaxJaw) \X (0..MaxJaw) :
          /\ x0 <= x1
          /\ y0 <= y1
          /\ ExactDirection(JawsVector(one, two))
          /\ tri_args = [image              |-> OriginalImage(<<1, height, width>>),
                         skull              |-> OriginalImage(<<1, height, width>>),
                         skull_bounding_box |-> <<x0, x1, y0, y1>>,
                         barycenter_jaw_one |-> one,
                         barycenter_jaw_two |-> two]
    /\ skull_center = <<>>
    /\ jaws_vector = <<>>
    /\ triangle_angle = <<>>
    /\ tri_result = <<>>

\* lines 213-229: the centre of the box, the jaws vector and the angle that
\* makes it horizontal
TriAlign ==
    /\ tri_pc = "align"
    /\ LET box == tri_args.skull_bounding_box
           v   == JawsVector(tri_args.barycenter_jaw_one, tri_args.barycenter_jaw_two)
       IN  /\ skull_center' = <<RAdd(Z(box[1]), Q(box[2] - box[1], 2)),
                                RAdd(Z(box[3]), Q(box[4] - box[3], 2))>>
           /\ jaws_vector' = v
           /\ triangle_angle' = IF v[2] > 0 THEN RNeg(AcosOverPi(v)) ELSE AcosOverPi(v)
    /\ tri_pc' = "orient"
    /\ UNCHANGED <<tri_args, tri_result>>
    /\ UNCHANGED triOthers

\* lines 231-240: the skull centre and the first jaw, relative to the centre
\* of the image, are rotated; a half turn is added when the jaw comes out
\* above the skull
TriOrient ==
    /\ tri_pc = "orient"
    /\ LET shape == tri_args.image.shape
           skull_to_center_vector ==
               <<RSub(skull_center[1], Q(shape[3], 2)), RSub(skull_center[2], Q(shape[2], 2))>>
           jaw_one_to_center_vector ==
               <<RSub(Z(tri_args.barycenter_jaw_one[1]), Q(shape[3], 2)),
                 RSub(Z(tri_args.barycenter_jaw_one[2]), Q(shape[2], 2))>>
           new_skull_to_center_vector ==
               apply_2d_rotation_to_a_vector(skull_to_center_vector, triangle_angle)
           new_jaw_one_to_center_vector ==
               apply_2d_rotation_to_a_vector(jaw_one_to_center_vector, triangle_angle)
           exact == NeedsHalfTurn(new_jaw_one_to_center_vector, new_skull_to_center_vector)
           outcomes ==
               IF /\ ~IsNaN(triangle_angle)
                  /\ triangle_angle # Z(0)
                  /\ new_jaw_one_to_center_vector[2] = new_skull_to_center_vector[2]
               THEN {TRUE, FALSE}
               ELSE {exact}
       IN  \E half_turn \in outcomes :
              triangle_angle' = IF half_turn THEN RAdd(triangle_angle, Z(1))
                                ELSE triangle_angle
    /\ tri_pc' = "resample"
    /\ UNCHANGED <<tri_args, skull_center, jaws_vector, tri_result>>
    /\ UNCHANGED triOthers

\* lines 242-245
TriReturn ==
    /\ tri_pc = "resample"
    /\ tri_result' = <<compute_2d_rotation(tri_args.image, triangle_angle, "linear"),
                       compute_2d_rotation(tri_args.skull, triangle_angle, "nearest"),
                       triangle_angle>>
    /\ tri_pc' = "returned"
    /\ UNCHANGED <<tri_args, skull_center, jaws_vector, triangle_angle>>
    /\ UNCHANGED triOthers

TriNext ==
    \/ TriAlign
    \/ TriOrient
    \/ TriReturn

InitTriangle ==
    DecIdle /\ RotIdle /\ CenIdle /\ PipIdle /\ BlkIdle /\ SymIdle /\ TriInit /\ ThrIdle
        /\ MdpIdle /\ LkpIdle

SpecTriangle == InitTriangle /\ [][TriNext]_vars

\* ------------------------------------------------------------------------
\* straight_throat_rotation, automatic mode: the tracking of the throat and
\* the rejection of leading and trailing vectors (registration.py, lines
\* 267-328)
\*
\* A slice of the throat mask is <<>> when it has no pixel and <<y, x>>, the
\* centroid retrieve_throat_centroid returns, when it has. Normalised vectors
\* are kept by the vector they normalise: the norms are divided out in the
\* comparison of the cosine with 0.92.
\* ------------------------------------------------------------------------
MaxSlices == 4

MaxShift == 1

RECURSIVE CentroidsOf(_, _)
\* lines 274-279: centroid_list after slices 0 .. n - 1, entries [y, x, nbSlice]
CentroidsOf(mask_img, n) ==
    IF n = 0 THEN <<>>
    ELSE IF mask_img[n] = <<>> THEN CentroidsOf(mask_img, n - 1)
    ELSE Append(CentroidsOf(mask_img, n - 1), <<mask_img[n][1], mask_img[n][2], n - 1>>)

\* lines 280-283: one vector [z, y, x] per pair of consecutive centroids
VectorsOf(centroids) ==
    [k \in 1..(IF Len(centroids) > 1 THEN Len(centroids) - 1 ELSE 0) |->
        <<centroids[k + 1][3] - centroids[k][3],
          centroids[k + 1][1] - centroids[k][1],
          centroids[k + 1][2] - centroids[k][2]>>]

RECURSIVE InsertSorted(_, _)
InsertSorted(sorted, value) ==
    IF sorted = <<>> THEN <<value>>
    ELSE IF value < Head(sorted) THEN <<value>> \o sorted
    ELSE <<Head(sorted)>> \o InsertSorted(Tail(sorted), value)

RECURSIVE SortedList(_)
\* list.sort(), lines 289-290
SortedList(list) ==
    IF list = <<>> THEN <<>>
    ELSE InsertSorted(SortedList(SubSeq(list, 1, Len(list) - 1)), list[Len(list)])

\* the component k of every vector of a list
ComponentList(vectors, k) == [j \in 1..Len(vectors) |-> vectors[j][k]]

\* [1, list_of_ys[len(list_of_ys) // 2], list_of_xs[len(list_of_xs) // 2]]
TotalVector(ys, xs) == <<1, ys[(Len(ys) \div 2) + 1], xs[(Len(xs) \div 2) + 1]>>

DotProduct(a, b) == a[1] * b[1] + a[2] * b[2] + a[3] * b[3]

\* np.dot(normalized_total_vector, normalized_current_vector) < 0.92, with
\* 0.92 ^ 2 = 8464 / 10000
SimilarityBelow(total, vector) ==
    \/ DotProduct(total, vector) < 0
    \/ 10000 * DotProduct(total, vector) * DotProduct(total, vector)
          < 8464 * DotProduct(total, total) * DotProduct(vector, vector)

DeleteFirst(list) == Tail(list)

DeleteLast(list) == SubSeq(list, 1, Len(list) - 1)

\* the masks: up to MaxSlices slices, each empty or with its centroid at a
\* pixel of a (MaxShift + 1) x (MaxShift + 1) image
ThroatSlices == {<<>>} \cup ((0..MaxShift) \X (0..MaxShift))

ThrInit ==
    /\ thr_pc = "track"
    /\ \E depth \in 1..MaxSlices : throat_mask_img \in [1..depth -> ThroatSlices]
    /\ centroid_list = <<>>
    /\ vectors_list = <<>>
    /\ list_of_ys = <<>>
    /\ list_of_xs = <<>>
    /\ total_vector = <<>>
    /\ current_vector = <<>>
    /\ thr_tests = <<>>
    /\ direction_vector = <<>>
    /\ throat_coordinates = <<>>
    /\ thr_raised = "none"

\* lines 268-297: centroids, vectors, the sorted components, the median
\* direction; the for loop of lines 296-297 leaves the last vector of the
\* list in normalized_current_vector
ThrTrack ==
    /\ thr_pc = "track"
    /\ LET centroids == CentroidsOf(throat_mask_img, Len(throat_mask_img))
           vectors   == VectorsOf(centroids)
           ys        == SortedList(ComponentList(vectors, 2))
           xs        == SortedList(ComponentList(vectors, 3))
       IN  /\ centroid_list' = centroids
           /\ vectors_list' = vectors
           /\ list_of_ys' = ys
           /\ list_of_xs' = xs
           /\ IF vectors = <<>>
              THEN /\ thr_raised' = "IndexError"      \* line 292
                   /\ thr_pc' = "raised"
                   /\ UNCHANGED <<total_vector, current_vector>>
              ELSE /\ total_vector' = TotalVector(ys, xs)
                   /\ current_vector' = vectors[Len(vectors)]
                   /\ thr_pc' = "front"
                   /\ UNCHANGED thr_raised
    /\ UNCHANGED <<throat_mask_img, thr_tests, direction_vector, throat_coordinates>>
    /\ UNCHANGED thrOthers

\* the record of one evaluation of a while condition
ThrTest(end, below) ==
    [end       |-> end,
     total     |-> total_vector,
     tested    |-> current_vector,
     candidate |-> IF end = "front" THEN vectors_list[1] ELSE vectors_list[Len(vectors_list)],
     deleted   |-> below]

\* lines 299-307, one iteration: the first entry of each list is deleted
ThrFrontDelete ==
    /\ thr_pc = "front"
    /\ SimilarityBelow(total_vector, current_vector)
    /\ thr_tests' = Append(thr_tests, ThrTest("front", TRUE))
    /\ vectors_list' = DeleteFirst(vectors_list)
    /\ centroid_list' = DeleteFirst(centroid_list)
    /\ list_of_ys' = DeleteFirst(list_of_ys)
    /\ list_of_xs' = DeleteFirst(list_of_xs)
    /\ IF list_of_ys' = <<>>
       THEN /\ thr_raised' = "IndexError"             \* line 305
            /\ thr_pc' = "raised"
            /\ UNCHANGED <<total_vector, current_vector>>
       ELSE /\ total_vector' = TotalVector(list_of_ys', list_of_xs')
            /\ current_vector' = vectors_list'[1]
            /\ UNCHANGED <<thr_pc, thr_raised>>
    /\ UNCHANGED <<throat_mask_img, direction_vector, throat_coordinates>>
    /\ UNCHANGED thrOthers

\* line 299 false, then lines 309-314
ThrFrontExit ==
    /\ thr_pc = "front"
    /\ ~SimilarityBelow(total_vector, current_vector)
    /\ thr_tests' = Append(thr_tests, ThrTest("front", FALSE))
    /\ total_vector' = TotalVector(list_of_ys, list_of_xs)
    /\ current_vector' = vectors_list[Len(vectors_list)]
    /\ thr_pc' = "back"
    /\ UNCHANGED <<throat_mask_img, centroid_list, vectors_list, list_of_ys, list_of_xs,
                   direction_vector, throat_coordinates, thr_raised>>
    /\ UNCHANGED thrOthers

\* lines 316-324, one iteration: the last entry of each list is deleted
ThrBackDelete ==
    /\ thr_pc = "back"
    /\ SimilarityBelow(total_vector, current_vector)
    /\ thr_tests' = Append(thr_tests, ThrTest("back", TRUE))
    /\ vectors_list' = DeleteLast(vectors_list)
    /\ centroid_list' = DeleteLast(centroid_list)
    /\ list_of_ys' = DeleteLast(list_of_ys)
    /\ list_of_xs' = DeleteLast(list_of_xs)
    /\ IF list_of_ys' = <<>>
       THEN /\ thr_raised' = "IndexError"             \* line 322
            /\ thr_pc' = "raised"
            /\ UNCHANGED <<total_vector, current_vector>>
       ELSE /\ total_vector' = TotalVector(list_of_ys', list_of_xs')
            /\ current_vector' = vectors_list'[Len(vectors_list')]
            /\ UNCHANGED <<thr_pc, thr_raised>>
    /\ UNCHANGED <<throat_mask_img, direction_vector, throat_coordinates>>
    /\ UNCHANGED thrOthers

\* line 316 false, then lines 326-328: the direction is the flipped median
\* vector [x, y, z], the centre of rotation the first centroid left [x, y, z]
ThrBackExit ==
    /\ thr_pc = "back"
    /\ ~SimilarityBelow(total_vector, current_vector)
    /\ thr_tests' = Append(thr_tests, ThrTest("back", FALSE))
    /\ direction_vector' = <<total_vector[3], total_vector[2], total_vector[1]>>
    /\ throat_coordinates' = <<centroid_list[1][2], centroid_list[1][1], centroid_list[1][3]>>
    /\ thr_pc' = "tracked"
    /\ UNCHANGED <<throat_mask_img, centroid_list, vectors_list, list_of_ys, list_of_xs,
                   total_vector, current_vector, thr_raised>>
    /\ UNCHANGED thrOthers

ThrNext ==
    \/ ThrTrack
    \/ ThrFrontDelete
    \/ ThrFrontExit
    \/ ThrBackDelete
    \/ ThrBackExit

InitThroat ==
    DecIdle /\ RotIdle /\ CenIdle /\ PipIdle /\ BlkIdle /\ SymIdle /\ TriIdle /\ ThrInit
        /\ MdpIdle /\ LkpIdle

SpecThroat == InitThroat /\ [][ThrNext]_vars

\* ------------------------------------------------------------------------
\* material_decomposition_pipeline (material_decomposition.py, lines 109-212)
\* with loading_bar (lines 18-37), retrieve_material_and_energy_from_folder_name
\* (lines 40-66) and get_attenuation_from_kedge (lines 69-106)
\*
\* The radix is "rat_". A folder is known by its name; what the code reads
\* off a name (the substrings it tests, the two trailing tokens it parses) is
\* tabulated for the names the folders are drawn from. The call of
\* decomposition_equation_resolution, modelled on its own above, is kept
\* symbolic here: map j is the solution for column j of the attenuation
\* array scaled by densities[j].
\* ------------------------------------------------------------------------
MaxFolders == 3

MaxFiles == 2

TestFolderNames ==
    {"rat_AboveAu_0_1/", "rat_BelowAu_0_2/", "rat_BelowI_1_3/", "rat_material_decomposition/"}

\* the substrings of the naming convention a folder name contains
FolderTokens(folder_name) ==
    CASE folder_name = "rat_AboveAu_0_1/" -> {"AboveAu"}
      [] folder_name = "rat_BelowAu_0_2/" -> {"BelowAu"}
      [] folder_name = "rat_BelowI_1_3/"  -> {"BelowI"}
      [] OTHER                            -> {}

\* token in folder_name
Contains(folder_name, token) == token \in FolderTokens(folder_name)

\* lines 138-139: (float(folder.split("_")[-2]), float(folder.split("_")[-1]
\* without slashes))
FolderMinMax(folder_name) ==
    CASE folder_name = "rat_AboveAu_0_1/" -> <<Z(0), Z(1)>>
      [] folder_name = "rat_BelowAu_0_2/" -> <<Z(0), Z(2)>>
      [] folder_name = "rat_BelowI_1_3/"  -> <<Z(1), Z(3)>>

\* Python's None where a name is expected
NoneName == "None"

\* lines 40-66: <<material, energy>>, None twice for no match
retrieve_material_and_energy_from_folder_name(folder_name) ==
    IF Contains(folder_name, "AboveAu") THEN <<"Au", "above">>
    ELSE IF Contains(folder_name, "BelowAu") THEN <<"Au", "below">>
    ELSE IF Contains(folder_name, "AboveBa") THEN <<"Ba", "above">>
    ELSE IF Contains(folder_name, "BelowBa") THEN <<"Ba", "below">>
    ELSE IF Contains(folder_name, "AboveGd") THEN <<"Gd", "above">>
    ELSE IF Contains(folder_name, "BelowGd") THEN <<"Gd", "below">>
    ELSE IF Contains(folder_name, "AboveI") THEN <<"I", "above">>
    ELSE IF Contains(folder_name, "BelowI") THEN <<"I", "below">>
    ELSE <<NoneName, NoneName>>

\* str.lower() on the names in use
Lower(name) ==
    CASE name = "Au" -> "au"
      [] name = "Ba" -> "ba"
      [] name = "Gd" -> "gd"
      [] name = "I"  -> "i"
      [] OTHER       -> name

\* lines 80-91
indices_dict(name) ==
    CASE name \in {"water", "h2o"}     -> 0
      [] name \in {"i", "iodine"}      -> 1
      [] name \in {"ba", "barium"}     -> 2
      [] name \in {"gd", "gadolinium"} -> 3
      [] name \in {"au", "gold"}       -> 4

\* lines 93-98, in units of 1 / 10000:
\*        I-       I+      Ba-     Ba+     Gd-     Gd+     Au-      Au+
muz ==
    << <<   3307,    3188,   2940,   2790,   2290,   2240,   1835,    1827>>,
       << 336370, 1709231, 282000, 245600, 128300, 115500, 168852,  163330>>,
       <<  82170,   70000,  59230, 273200, 143500, 129300,  40000,   37450>>,
       << 123200,  104900,  88730,  77050,  40150, 177000,  56240,   52720>>,
       <<4219694, 3895878, 165900, 144300,  75510,  68090, 407423, 1658642>> >>

\* list[index] of Python for an index in -len .. len - 1
PyItem(list, index) == IF index < 0 THEN list[Len(list) + index + 1] ELSE list[index + 1]

\* lines 100-106
get_attenuation_from_kedge(attenuation_material, kedge_material, above_or_below) ==
    LET kedge_material_index       == indices_dict(Lower(kedge_material))
        attenuation_material_index == indices_dict(Lower(attenuation_material))
    IN  IF Lower(above_or_below) = "above"
        THEN Q(PyItem(PyItem(muz, attenuation_material_index),
                      (kedge_material_index - 1) * 2 + 1), 10000)
        ELSE Q(PyItem(PyItem(muz, attenuation_material_index),
                      (kedge_material_index - 1) * 2), 10000)

\* lines 118-124
densities_dict(name) ==
    CASE name = "water" -> Z(1)
      [] name = "i"     -> Q(493, 100)
      [] name = "ba"    -> Q(7, 2)
      [] name = "gd"    -> Q(79, 10)
      [] name = "au"    -> Q(193, 10)

RECURSIVE DiscoveredMaterials(_, _)
\* lines 131-134: list_of_materials after the first n folders
DiscoveredMaterials(folders, n) ==
    IF n = 0 THEN <<>>
    ELSE LET before   == DiscoveredMaterials(folders, n - 1)
             material == retrieve_material_and_energy_from_folder_name(folders[n])[1]
         IN  IF material # NoneName /\ \A k \in 1..Len(before) : before[k] # material
             THEN Append(before, material)
             ELSE before

\* lines 135-139: the folders that contribute an energy
InputFolders(folders) ==
    SelectSeq(folders,
              LAMBDA folder :
                  /\ retrieve_material_and_energy_from_folder_name(folder)[1] # NoneName
                  /\ retrieve_material_and_energy_from_folder_name(folder)[2] # NoneName)

\* lines 142-159: one row per energy, one column per discovered material and
\* a last column for water
AttenuationsArray(energies, materials) ==
    Array2([energy_index \in 1..Len(energies) |->
               [column \in 1..(Len(materials) + 1) |->
                   get_attenuation_from_kedge(
                       IF column <= Len(materials) THEN materials[column] ELSE "water",
                       energies[energy_index][2], energies[energy_index][1])]])

\* lines 163-168
Densities(materials) ==
    Append(Tabulate([k \in 1..Len(materials) |-> densities_dict(Lower(materials[k]))],
                    Len(materials)),
           densities_dict("water"))

\* mutant: the folder of water comes first
OutputFolders_WaterFirst(material_decomposition_folder, materials) ==
    <<material_decomposition_folder \o "water_decomposition/">>
        \o Tabulate([k \in 1..Len(materials) |->
                        material_decomposition_folder \o materials[k] \o "_decomposition/"],
                    Len(materials))

\* lines 190-195
OutputFolders(material_decomposition_folder, materials) ==
    Append(Tabulate([k \in 1..Len(materials) |->
                        material_decomposition_folder \o materials[k] \o "_decomposition/"],
                    Len(materials)),
           material_decomposition_folder \o "water_decomposition/")

DigitChar(digit) ==
    CASE digit = 0 -> "0" [] digit = 1 -> "1" [] digit = 2 -> "2" [] digit = 3 -> "3"
      [] digit = 4 -> "4" [] digit = 5 -> "5" [] digit = 6 -> "6" [] digit = 7 -> "7"
      [] digit = 8 -> "8" [] digit = 9 -> "9"

RECURSIVE DecimalString(_)
\* str(n) for n >= 0
DecimalString(n) ==
    IF n < 10 THEN DigitChar(n) ELSE DecimalString(n \div 10) \o DigitChar(n % 10)

\* mutant: no padding
Format4_Unpadded(n) == DecimalString(n)

\* '%4.4d' % n for n >= 0: at least four digits, padded with zeros
Format4(n) ==
    IF n < 10 THEN "000" \o DecimalString(n)
    ELSE IF n < 100 THEN "00" \o DecimalString(n)
    ELSE IF n < 1000 THEN "0" \o DecimalString(n)
    ELSE DecimalString(n)

\* the nearest integer of n / d (d > 0, n >= 0), ties to even
RoundHalfEven(n, d) ==
    LET q == n \div d
        r == n % d
    IN  IF 2 * r < d THEN q
        ELSE IF 2 * r > d THEN q + 1
        ELSE IF q % 2 = 0 THEN q ELSE q + 1

\* loading_bar(iteration, total_iterations), lines 28-37, for a total that is
\* not 0: the percentage printed with one decimal (in tenths), the number of
\* '#' of the bar and whether a new line is printed
loading_bar(iteration, total_iterations) ==
    [percent_tenths |-> RoundHalfEven(1000 * iteration, total_iterations),
     filled_length  |-> (100 * iteration) \div total_iterations,
     new_line       |-> iteration = total_iterations]

\* decomposition_equation_resolution(images, densities, attenuations_array,
\* volume_fraction_hypothesis=False): map j comes from column j and density j
DecompositionMaps(slice_images, densities_array, attenuations) ==
    Tabulate([j \in 1..Len(densities_array) |->
                 [images             |-> slice_images,
                  attenuation_column |-> Tabulate([e \in 1..Len(attenuations) |->
                                                      attenuations[e][j]],
                                                  Len(attenuations)),
                  density            |-> densities_array[j]]],
             Len(densities_array))

\* the shapes of the images of a folder: all alike, or the last one different
TestFileLists ==
    UNION {{[k \in 1..n |-> <<2, 2>>],
            [k \in 1..n |-> IF k = n THEN <<2, 3>> ELSE <<2, 2>>]} : n \in 0..MaxFiles}

MdpInit ==
    /\ mdp_pc = "discover"
    /\ \E n \in 0..MaxFolders :
          /\ checking_folders \in [1..n -> TestFolderNames]
          /\ \A k, l \in 1..n : k # l => checking_folders[k] # checking_folders[l]
    /\ folder_files \in [TestFolderNames -> TestFileLists]
    /\ \A name \in TestFolderNames :
          (FolderTokens(name) = {} \/ \A k \in 1..Len(checking_folders) : checking_folders[k] # name)
              => folder_files[name] = <<>>
    /\ list_of_materials = <<>>
    /\ list_of_energies = <<>>
    /\ list_of_input_folders = <<>>
    /\ list_of_min_max = <<>>
    /\ attenuations_array = <<>>
    /\ list_of_densities = <<>>
    /\ nb_of_filenames = <<>>
    /\ total_filenames_nb = 0
    /\ reference_shape = <<>>
    /\ list_of_output_folders = <<>>
    /\ slice_nb = 0
    /\ created_directories = <<>>
    /\ opened = <<>>
    /\ progress = <<>>
    /\ saved = <<>>
    /\ printed = <<>>
    /\ mdp_raised = "none"

\* lines 125-139
MdpDiscover ==
    /\ mdp_pc = "discover"
    /\ list_of_materials' = DiscoveredMaterials(checking_folders, Len(checking_folders))
    /\ list_of_input_folders' = InputFolders(checking_folders)
    /\ list_of_energies' =
          Tabulate([k \in 1..Len(list_of_input_folders') |->
                       LET found == retrieve_material_and_energy_from_folder_name(
                                        list_of_input_folders'[k])
                       IN  <<found[2], found[1]>>],
                   Len(list_of_input_folders'))
    /\ list_of_min_max' =
          Tabulate([k \in 1..Len(list_of_input_folders') |->
                       FolderMinMax(list_of_input_folders'[k])],
                   Len(list_of_input_folders'))
    /\ mdp_pc' = "tables"
    /\ UNCHANGED printed
    /\ UNCHANGED <<checking_folders, folder_files, attenuations_array, list_of_densities,
                   nb_of_filenames, total_filenames_nb, reference_shape,
                   list_of_output_folders, slice_nb, created_directories, opened, progress,
                   saved, mdp_raised>>
    /\ UNCHANGED mdpOthers

\* lines 141-169
MdpBuildTables ==
    /\ mdp_pc = "tables"
    /\ attenuations_array' = AttenuationsArray(list_of_energies, list_of_materials)
    /\ list_of_densities' = Densities(list_of_materials)
    /\ mdp_pc' = "files"
    /\ printed' = printed \o
          << <<"list of energies :", list_of_energies>>,
             <<"materials :", list_of_materials>>,
             <<"attenuations array :", attenuations_array'>>,
             <<"densities :", list_of_densities'>> >>
    /\ UNCHANGED <<checking_folders, folder_files, list_of_materials, list_of_energies,
                   list_of_input_folders, list_of_min_max, nb_of_filenames,
                   total_filenames_nb, reference_shape, list_of_output_folders, slice_nb,
                   created_directories, opened, progress, saved, mdp_raised>>
    /\ UNCHANGED mdpOthers

\* lines 173-185: the files of every input folder are listed, the minimum of
\* their numbers is taken (ValueError for no folder) and the first file of the
\* first folder is opened (IndexError if it has none)
MdpListFiles ==
    /\ mdp_pc = "files"
    /\ nb_of_filenames' =
          Tabulate([k \in 1..Len(list_of_input_folders) |->
                       Len(folder_files[list_of_input_folders[k]])],
                   Len(list_of_input_folders))
    /\ IF list_of_input_folders = <<>>
       THEN /\ mdp_raised' = "ValueError"             \* line 181
            /\ mdp_pc' = "raised"
            /\ UNCHANGED <<total_filenames_nb, reference_shape, opened>>
       ELSE /\ total_filenames_nb' =
                   CHOOSE m \in {nb_of_filenames'[k] : k \in 1..Len(nb_of_filenames')} :
                       \A k \in 1..Len(nb_of_filenames') : m <= nb_of_filenames'[k]
            /\ IF nb_of_filenames'[1] = 0
               THEN /\ mdp_raised' = "IndexError"     \* line 182
                    /\ mdp_pc' = "raised"
                    /\ UNCHANGED <<reference_shape, opened>>
               ELSE /\ opened' = Append(opened, [folder |-> list_of_input_folders[1],
                                                 slice  |-> 0])
                    /\ reference_shape' = folder_files[list_of_input_folders[1]][1]
                    /\ mdp_pc' = "folders"
                    /\ UNCHANGED mdp_raised
    /\ printed' = printed \o
          Tabulate([k \in 1..Len(list_of_input_folders) |->
                       <<"folder :", list_of_input_folders[k]>>],
                   Len(list_of_input_folders))
    /\ UNCHANGED <<checking_folders, folder_files, list_of_materials, list_of_energies,
                   list_of_input_folders, list_of_min_max, attenuations_array,
                   list_of_densities, list_of_output_folders, slice_nb,
                   created_directories, progress, saved>>
    /\ UNCHANGED mdpOthers

\* lines 187-195
MdpCreateFolders ==
    /\ mdp_pc = "folders"
    /\ list_of_output_folders' = OutputFolders("rat_material_decomposition/", list_of_materials)
    /\ created_directories' = <<"rat_material_decomposition/">> \o list_of_output_folders'
    /\ mdp_pc' = "slices"
    /\ UNCHANGED printed
    /\ UNCHANGED <<checking_folders, folder_files, list_of_materials, list_of_energies,
                   list_of_input_folders, list_of_min_max, attenuations_array,
                   list_of_densities, nb_of_filenames, total_filenames_nb, reference_shape,
                   slice_nb, opened, progress, saved, mdp_raised>>
    /\ UNCHANGED mdpOthers

\* the input folders whose image of a slice does not fit the array images
Misfits(slice) ==
    {k \in 1..Len(list_of_input_folders) :
        folder_files[list_of_input_folders[k]][slice + 1] # reference_shape}

\* the images of a slice opened from the first n input folders, lines 201-205
SliceImages(slice, n) ==
    Tabulate([k \in 1..n |-> [folder  |-> list_of_input_folders[k],
                              slice   |-> slice,
                              min_max |-> list_of_min_max[k]]], n)

\* the records of the images opened
OpenedOf(slice_images) ==
    Tabulate([k \in 1..Len(slice_images) |-> [folder |-> slice_images[k].folder,
                                              slice  |-> slice_images[k].slice]],
             Len(slice_images))

\* lines 198-212, one iteration: the progress report (ZeroDivisionError for a
\* total of 0), the images of the slice (ValueError at the first one that
\* does not fit), the decomposition, one saved image per output folder
MdpSlice ==
    /\ mdp_pc = "slices"
    /\ slice_nb < total_filenames_nb
    /\ IF total_filenames_nb - 1 = 0
       THEN /\ mdp_raised' = "ZeroDivisionError"      \* line 28
            /\ mdp_pc' = "raised"
            /\ UNCHANGED <<slice_nb, opened, progress, saved>>
       ELSE /\ progress' = Append(progress, loading_bar(slice_nb, total_filenames_nb - 1))
            /\ IF Misfits(slice_nb) # {}
               THEN LET first == CHOOSE k \in Misfits(slice_nb) :
                                     \A l \in Misfits(slice_nb) : k <= l
                    IN  /\ opened' = opened \o OpenedOf(SliceImages(slice_nb, first))
                        /\ mdp_raised' = "ValueError" \* line 205
                        /\ mdp_pc' = "raised"
                        /\ UNCHANGED <<slice_nb, saved>>
               ELSE LET slice_images == SliceImages(slice_nb, Len(list_of_input_folders))
                        maps == DecompositionMaps(slice_images, list_of_densities,
                                                  attenuations_array)
                    IN  /\ opened' = opened \o OpenedOf(slice_images)
                        /\ saved' = saved \o
                              Tabulate([j \in 1..Len(list_of_output_folders) |->
                                           [name   |-> list_of_output_folders[j]
                                                          \o Format4(slice_nb),
                                            folder |-> list_of_output_folders[j],
                                            slice  |-> slice_nb,
                                            image  |-> maps[j]]],
                                       Len(list_of_output_folders))
                        /\ slice_nb' = slice_nb + 1
                        /\ UNCHANGED <<mdp_pc, mdp_raised>>
    /\ UNCHANGED printed
    /\ UNCHANGED <<checking_folders, folder_files, list_of_materials, list_of_energies,
                   list_of_input_folders, list_of_min_max, attenuations_array,
                   list_of_densities, nb_of_filenames, total_filenames_nb, reference_shape,
                   list_of_output_folders, created_directories>>
    /\ UNCHANGED mdpOthers

\* the loop of line 198 is over
MdpReturn ==
    /\ mdp_pc = "slices"
    /\ slice_nb >= total_filenames_nb
    /\ mdp_pc' = "returned"
    /\ UNCHANGED printed
    /\ UNCHANGED <<checking_folders, folder_files, list_of_materials, list_of_energies,
                   list_of_input_folders, list_of_min_max, attenuations_array,
                   list_of_densities, nb_of_filenames, total_filenames_nb, reference_shape,
                   list_of_output_folders, slice_nb, created_directories, opened, progress,
                   saved, mdp_raised>>
    /\ UNCHANGED mdpOthers

MdpNext ==
    \/ MdpDiscover
    \/ MdpBuildTables
    \/ MdpListFiles
    \/ MdpCreateFolders
    \/ MdpSlice
    \/ MdpReturn

InitDecompositionPipeline ==
    DecIdle /\ RotIdle /\ CenIdle /\ PipIdle /\ BlkIdle /\ SymIdle /\ TriIdle /\ ThrIdle
        /\ MdpInit /\ LkpIdle

SpecDecompositionPipeline == InitDecompositionPipeline /\ [][MdpNext]_vars

\* ------------------------------------------------------------------------
\* get_attenuation_from_kedge called on its own (material_decomposition.py,
\* lines 69-106)
\*
\* The function is the operator get_attenuation_from_kedge defined with the
\* pipeline; here it is called with every pair of names its name mapping
\* accepts and both energy conditions.
\* ------------------------------------------------------------------------
\* the keys of indices_dict (lines 80-91) and the capitalised symbols that
\* lower() maps onto them
AcceptedNames ==
    {"water", "h2o", "i", "iodine", "ba", "barium", "gd", "gadolinium", "au", "gold",
     "Au", "Ba", "Gd", "I"}

AttInit ==
    /\ att_pc = "call"
    /\ att_args \in [attenuation_material : AcceptedNames,
                     kedge_material       : AcceptedNames,
                     above_or_below       : {"above", "below"}]
    /\ att_result = <<>>

\* lines 69-106: the call and its return value
AttLookup ==
    /\ att_pc = "call"
    /\ att_result' = get_attenuation_from_kedge(att_args.attenuation_material,
                                                att_args.kedge_material,
                                                att_args.above_or_below)
    /\ att_pc' = "returned"
    /\ UNCHANGED <<att_args, attOthers>>

AttNext == AttLookup

InitAttenuationLookup ==
    DecIdle /\ RotIdle /\ CenIdle /\ PipIdle /\ BlkIdle /\ SymIdle /\ TriIdle /\ ThrIdle
        /\ MdpIdle /\ AttInit /\ TifIdle

SpecAttenuationLookup == InitAttenuationLookup /\ [][AttNext]_vars

\* ------------------------------------------------------------------------
\* saveTiff16bit (phase_retrieval/pagailleIO.py, lines 26-38)
\*
\* tif_data is the image, flattened, with integer pixel values; datatoStore
\* holds exact rationals until the conversion to uint16.  A conversion of a
\* float outside 0..65535 to uint16 is undefined in C: the build either keeps
\* the low 16 bits of the truncated value or saturates.
\* ------------------------------------------------------------------------
\* the largest number of pixels of an image
MaxTifLen == 2

\* pixel values and explicit limits range over -1..MaxTifValue and
\* 0..MaxTifValue
MaxTifValue == 3

\* np.amin and np.amax
amin(a) == CHOOSE x \in {a[i] : i \in 1..Len(a)} : \A i \in 1..Len(a) : x <= a[i]

amax(a) == CHOOSE x \in {a[i] : i \in 1..Len(a)} : \A i \in 1..Len(a) : a[i] <= x

\* line 30: 65536 * (value - minIm) / (maxIm - minIm), a float division
ScaleFactor == 65536

Scaled(value, lo, hi) == RDiv(Z(ScaleFactor * (value - lo)), Z(hi - lo))

\* line 31: the threshold above which a value is replaced by 65535
HighThreshold == 65635

\* line 33: the conversion of one float to uint16; truncation toward zero
\* inside 0..65535, nan and values outside as the build converts them
ToUint16(x, overflow) ==
    IF ~IsFinite(x) THEN 0
    ELSE LET t == IntOf(x)
         IN  IF t \in 0..65535 THEN t
             ELSE IF overflow = "wrap" THEN t % 65536
             ELSE IF t < 0 THEN 0 ELSE 65535

TifInit ==
    /\ tif_pc = "range"
    /\ \E n \in 1..MaxTifLen : tif_data \in [1..n -> -1..MaxTifValue]
    /\ minIm \in 0..MaxTifValue
    /\ maxIm \in 0..MaxTifValue
    /\ datatoStore = <<>>
    /\ tif_written = <<>>

\* lines 27-29: equal limits (the default 0, 0) are replaced by the extrema
TifRange ==
    /\ tif_pc = "range"
    /\ IF minIm = maxIm
       THEN /\ minIm' = amin(tif_data)
            /\ maxIm' = amax(tif_data)
       ELSE UNCHANGED <<minIm, maxIm>>
    /\ tif_pc' = "scale"
    /\ UNCHANGED <<tif_data, datatoStore, tif_written, tifOthers>>

\* line 30
TifScale ==
    /\ tif_pc = "scale"
    /\ datatoStore' = Tabulate([i \in 1..Len(tif_data) |->
                                   Scaled(tif_data[i], minIm, maxIm)], Len(tif_data))
    /\ tif_pc' = "clip_high"
    /\ UNCHANGED <<tif_data, minIm, maxIm, tif_written, tifOthers>>

\* line 31: datatoStore[datatoStore > 65635] = 65535
TifClipHigh ==
    /\ tif_pc = "clip_high"
    /\ datatoStore' = [i \in 1..Len(datatoStore) |->
                          IF RLess(Z(HighThreshold), datatoStore[i])
                          THEN Z(65535) ELSE datatoStore[i]]
    /\ tif_pc' = "clip_low"
    /\ UNCHANGED <<tif_data, minIm, maxIm, tif_written, tifOthers>>

\* line 32: datatoStore[datatoStore < 0] = 0
TifClipLow ==
    /\ tif_pc = "clip_low"
    /\ datatoStore' = [i \in 1..Len(datatoStore) |->
                          IF RLess(datatoStore[i], Z(0)) THEN Z(0) ELSE datatoStore[i]]
    /\ tif_pc' = "convert"
    /\ UNCHANGED <<tif_data, minIm, maxIm, tif_written, tifOthers>>

\* line 33: np.asarray(datatoStore, np.uint16)
TifConvert ==
    /\ tif_pc = "convert"
    /\ \E overflow \in {"wrap", "saturate"} :
          datatoStore' = [i \in 1..Len(datatoStore) |->
                             ToUint16(datatoStore[i], overflow)]
    /\ tif_pc' = "write"
    /\ UNCHANGED <<tif_data, minIm, maxIm, tif_written, tifOthers>>

\* lines 34-37: the image is written with or without header
TifWrite ==
    /\ tif_pc = "write"
    /\ tif_written' = datatoStore
    /\ tif_pc' = "returned"
    /\ UNCHANGED <<tif_data, minIm, maxIm, datatoStore, tifOthers>>

TifNext ==
    \/ TifRange
    \/ TifScale
    \/ TifClipHigh
    \/ TifClipLow
    \/ TifConvert
    \/ TifWrite

InitSaveTiff ==
    DecIdle /\ RotIdle /\ CenIdle /\ PipIdle /\ BlkIdle /\ SymIdle /\ TriIdle /\ ThrIdle
        /\ MdpIdle /\ AttIdle /\ TifInit

SpecSaveTiff == InitSaveTiff /\ [][TifNext]_vars

\* ------------------------------------------------------------------------
\* Properties of decomposition_equation_resolution
\* ------------------------------------------------------------------------
\* K, c and P of the call, from its arguments
ArgK == Len(images)

ArgC == IF volume_fraction_hypothesis THEN 1 ELSE 0

ArgP == Len(densities)

\* the attenuation matrix has the K x P shape the docstring asks for
WellFormedAttenuations ==
    /\ Len(material_attenuations) = ArgK
    /\ \A e \in 1..ArgK : Len(material_attenuations[e]) = ArgP

\* positions of the call after the solver has been chosen and has finished
PastSolve == pc \in {"alloc", "scale", "return", "returned"}

\* the observations of the voxel at row r, column c, plus 1 when constrained
Observed(r, c) == [e \in 1..(ArgK + ArgC) |-> IF e <= ArgK THEN images[e][r][c] ELSE 1]

\* the unknowns of system_2d_matrix for one right-hand side
Unknowns(rhs) ==
    IF ArgK + ArgC = ArgP THEN SolveSquare(system_2d_matrix, rhs)
    ELSE LstSq(system_2d_matrix, rhs)

\* row . x for an integer row and a vector of floats
Dot(row, x) == RSumTo([m \in 1..Len(row) |-> RMul(Z(row[m]), x[m])], Len(row))

\* C1: the exact solver (np.linalg.solve) is called if and only if
\* K + c = P; for every other (K, c, P), K + c < P included, the solver is
\* np.linalg.lstsq, called once per voxel.
C1_PathSelection ==
    /\ \A i \in 1..Len(linalg_calls) :
          (linalg_calls[i] = "solve") <=> (ArgK + ArgC = ArgP)
    /\ \A i \in 1..Len(linalg_calls) :
          (linalg_calls[i] = "lstsq") <=> (ArgK + ArgC # ArgP)
    /\ PastSolve =>
          IF ArgK + ArgC = ArgP THEN linalg_calls = <<"solve">>
          ELSE Len(linalg_calls) = Len(images[1]) * Len(images[1][1])

\* C1 witness: an under-determined call (K + c < P) has returned through the
\* least-squares path
C1_Witness ==
    /\ pc = "returned"
    /\ ArgK + ArgC < ArgP
    /\ Len(linalg_calls) > 1
    /\ \A i \in 1..Len(linalg_calls) : linalg_calls[i] = "lstsq"

\* C2 (as claimed): a call with K + c < P (and a K x P attenuation matrix) is
\* rejected with InsufficientEnergies rather than solved: no solver is called,
\* no maps are produced, and the only way the call ends is that rejection.
C2_InsufficientEnergiesRejected ==
    (ArgK + ArgC < ArgP /\ WellFormedAttenuations) =>
        /\ linalg_calls = <<>>
        /\ concentration_maps = None
        /\ pc # "returned"
        /\ pc = "raised" => raised = "InsufficientEnergies"

\* C3 (as claimed): with an attenuation matrix that is not K x P the call
\* fails with a shape error (numpy's ValueError on the slice assignment is the
\* only one the function can raise) and no solver has been called.
C3_ShapeMismatchRejected ==
    ~WellFormedAttenuations =>
        /\ linalg_calls = <<>>
        /\ pc # "returned"
        /\ pc = "raised" => raised = "ValueError"

\* C4: for a K x P attenuation matrix the system has K + c rows, rows 1..K
\* are the attenuation rows and, when constrained, row K + 1 is all ones; the
\* right-hand side of every voxel has K + c entries: the K observed values of
\* that voxel, followed by 1 when constrained.
C4_ConstraintRow ==
    /\ (WellFormedAttenuations /\ system_2d_matrix # None) =>
          /\ Len(system_2d_matrix) = ArgK + ArgC
          /\ \A e \in 1..ArgK : system_2d_matrix[e] = material_attenuations[e]
          /\ volume_fraction_hypothesis =>
                system_2d_matrix[ArgK + 1] = [m \in 1..ArgP |-> 1]
    /\ vector_2d_matrix # None =>
          /\ Len(vector_2d_matrix) = Len(images[1]) * Len(images[1][1])
          /\ \A r \in 1..Len(images[1]) : \A c \in 1..Len(images[1][1]) :
                LET rhs == vector_2d_matrix[(r - 1) * Len(images[1][1]) + c]
                IN  /\ Len(rhs) = ArgK + ArgC
                    /\ \A e \in 1..ArgK : rhs[e] = images[e][r][c]
                    /\ volume_fraction_hypothesis => rhs[ArgK + 1] = 1

\* C4 witness: a constrained system over several voxels has been built
C4_Witness ==
    /\ pc = "branch"
    /\ volume_fraction_hypothesis
    /\ WellFormedAttenuations
    /\ ArgK > 1
    /\ Len(vector_2d_matrix) > 1
    /\ system_2d_matrix[ArgK + 1] = [m \in 1..ArgP |-> 1]

\* the raw solution of the system for the voxel of flat index v
RawSolution(v) == Unknowns(vector_2d_matrix[v])

\* the value of map m at flat voxel index v
MapAt(m, v) ==
    concentration_maps[m][((v - 1) \div Len(images[1][1])) + 1]
                         [((v - 1) % Len(images[1][1])) + 1]

\* the density vector with the density of material j doubled
Doubled(j) == [m \in 1..ArgP |-> IF m = j THEN RMul(Z(2), densities[m]) ELSE densities[m]]

\* C5 (as claimed): every returned concentration equals the raw solution
\* times densities[m] times 1000.
C5_ScaledExactly ==
    pc = "returned" =>
        \A v \in 1..Len(vector_2d_matrix) :
            LET x == RawSolution(v)
            IN  \A m \in 1..ArgP :
                    MapAt(m, v) = RMul(RMul(x[m], densities[m]), Z(1000))

\* C5 (amended): every returned concentration is the float32 rounding of the
\* raw solution times densities[m] times 1000; the same computation with
\* densities[j] doubled gives twice map j and leaves the other maps as they are.
C5_ScaledByDensity ==
    pc = "returned" =>
        \A v \in 1..Len(vector_2d_matrix) :
            LET x == RawSolution(v)
            IN  \A m \in 1..ArgP :
                    /\ MapAt(m, v) = Float32(RMul(RMul(x[m], densities[m]), Z(1000)))
                    /\ \A j \in 1..ArgP :
                          Float32(RMul(RMul(x[m], Doubled(j)[m]), Z(1000)))
                             = IF j = m THEN RMul(Z(2), MapAt(m, v)) ELSE MapAt(m, v)

\* C5 witness: a call has returned a map value that float32 cannot hold
\* exactly
C5_Witness ==
    /\ pc = "returned"
    /\ \E v \in 1..Len(vector_2d_matrix) :
          LET x == RawSolution(v)
          IN  \E m \in 1..ArgP :
                  /\ MapAt(m, v)[1] # 0
                  /\ MapAt(m, v) # RMul(RMul(x[m], densities[m]), Z(1000))

\* C6: a call that returns, on either path, returns P maps of the shape of
\* one input image, and map m at (r, c) is the (scaled) m-th unknown of the
\* system whose right-hand side is the observations at (r, c).
C6_ShapeAndPosition ==
    pc = "returned" =>
        /\ Len(concentration_maps) = ArgP
        /\ \A m \in 1..ArgP :
              /\ Len(concentration_maps[m]) = Len(images[1])
              /\ \A r \in 1..Len(images[1]) :
                    Len(concentration_maps[m][r]) = Len(images[1][r])
        /\ \A r \in 1..Len(images[1]) : \A c \in 1..Len(images[1][r]) :
              LET x == Unknowns(Observed(r, c))
              IN  \A m \in 1..ArgP :
                      concentration_maps[m][r][c] = ScaleValue(x[m], densities[m])

\* C6 witness: a least-squares call over a 2D grid with more than one row and
\* more than one column has returned maps that differ between positions
C6_Witness ==
    /\ pc = "returned"
    /\ ArgK + ArgC # ArgP
    /\ Len(images[1]) > 1
    /\ Len(images[1][1]) > 1
    /\ concentration_maps[1][1][2] # concentration_maps[1][2][1]

\* a square system without constraint and with an invertible matrix
SquareInvertible ==
    /\ ArgK = ArgP
    /\ ~volume_fraction_hypothesis
    /\ WellFormedAttenuations
    /\ Det(material_attenuations) # 0

\* C7 (as claimed): in a square invertible system the maps divided by
\* densities[m] x 1000 reproduce every input value when multiplied by the
\* attenuation matrix.  A.x' = b has the single solution x, so the unscaled
\* maps x' reproduce b exactly when x reproduces b and map m = x[m] . d[m] . 1000.
C7_RoundTripExact ==
    (pc = "returned" /\ SquareInvertible) =>
        \A r \in 1..Len(images[1]) : \A c \in 1..Len(images[1][1]) :
            LET x == SolveSquare(material_attenuations, Observed(r, c))
            IN  /\ \A e \in 1..ArgK :
                      Dot(material_attenuations[e], x) = Z(images[e][r][c])
                /\ \A m \in 1..ArgP :
                      concentration_maps[m][r][c]
                         = RMul(RMul(x[m], densities[m]), Z(1000))

\* C7 (amended): in a square invertible system the maps are the float32
\* roundings of x[m] . d[m] . 1000 for the vector x that reproduces every input
\* value under the attenuation matrix: the round trip holds up to the float32
\* rounding of each map value.
C7_RoundTripFloat32 ==
    (pc = "returned" /\ SquareInvertible) =>
        \A r \in 1..Len(images[1]) : \A c \in 1..Len(images[1][1]) :
            LET x == SolveSquare(material_attenuations, Observed(r, c))
            IN  /\ \A e \in 1..ArgK :
                      Dot(material_attenuations[e], x) = Z(images[e][r][c])
                /\ \A m \in 1..ArgP :
                      concentration_maps[m][r][c]
                         = Float32(RMul(RMul(x[m], densities[m]), Z(1000)))

\* C7 witness: a 2 x 2 invertible system has returned with a non-zero map
C7_Witness ==
    /\ pc = "returned"
    /\ SquareInvertible
    /\ ArgK = 2
    /\ \E r \in 1..Len(images[1]) : \E c \in 1..Len(images[1][1]) :
          /\ concentration_maps[1][r][c][1] # 0
          /\ concentration_maps[2][r][c][1] # 0

\* ------------------------------------------------------------------------
\* Properties of calculate_rotation_matrix_between_3d_vectors
\* ------------------------------------------------------------------------
\* the integer vectors the function was called with
ArgMoving == IntsOf(rot_args[1])

ArgRef == IntsOf(rot_args[2])

IsZeroVector(v) == \A i \in 1..Len(v) : v[i] = 0

\* u and w point in opposite directions
AntiParallel(u, w) ==
    /\ ~IsZeroVector(u)
    /\ ~IsZeroVector(w)
    /\ u[2] * w[3] - u[3] * w[2] = 0
    /\ u[3] * w[1] - u[1] * w[3] = 0
    /\ u[1] * w[2] - u[2] * w[1] = 0
    /\ u[1] * w[1] + u[2] * w[2] + u[3] * w[3] < 0

\* C8 (as claimed): for a non-zero vector v the matrix returned for (v, v) is
\* the 3 x 3 identity.
C8_SameVectorIdentity ==
    (rot_pc = "returned" /\ ArgMoving = ArgRef /\ ~IsZeroVector(ArgMoving)) =>
        rot_result = Eye3

\* C9 (as claimed): for anti-parallel or zero-norm vectors no matrix with an
\* undefined entry reaches the caller (the condition is reported instead).
C9_DegenerateReported ==
    (rot_pc = "returned"
        /\ (IsZeroVector(ArgMoving) \/ IsZeroVector(ArgRef)
              \/ AntiParallel(ArgMoving, ArgRef))) =>
        \A i \in 1..Len(rot_result) : \A j \in 1..Len(rot_result[i]) :
            IsFinite(rot_result[i][j])

\* ------------------------------------------------------------------------
\* Properties of retrieve_throat_centroid
\* ------------------------------------------------------------------------
EmptyMask == \A r \in 1..Len(mask) : \A c \in 1..Len(mask[r]) : mask[r][c] = 0

\* C10: on a mask without a non-zero pixel the call fails (the error of
\* regions[0] on the empty region list) and no centroid is ever returned.
C10_EmptyMaskFails ==
    EmptyMask =>
        /\ cen_result = None
        /\ cen_pc # "returned"
        /\ cen_pc \notin {"entry", "labelled"} =>
              (cen_pc = "raised" /\ cen_raised = "IndexError")

\* C10 witness: the call on an empty mask of several pixels has ended
C10_Witness ==
    /\ EmptyMask
    /\ Len(mask) * Len(mask[1]) > 1
    /\ cen_pc = "raised"
    /\ regions = <<>>

\* ------------------------------------------------------------------------
\* Properties of apply_rotation_pipeline
\* ------------------------------------------------------------------------
\* the number of resampling operations done at each position of the call
PipStepsDone ==
    CASE pip_pc = "step1" -> 0
      [] pip_pc = "step2" -> 1
      [] pip_pc = "step3" -> 2
      [] OTHER            -> 3

\* the three resampling operations the claim lists, for the arguments of the
\* call; the rotation centres of the 2D rotations are those of the volume
\* each is applied to
PipExpectedOps ==
    LET w == pip_args.image.shape[3]
        h == pip_args.image.shape[2]
    IN  << [fn           |-> "compute_2d_rotation",
            angle        |-> pip_args.local_triangle_angle,
            center       |-> <<Q(w, 2), Q(h, 2), Z(0)>>,
            interpolator |-> "linear"],
           [fn          |-> "compute_3d_rotation",
            matrix      |-> pip_args.rotation_matrix,
            center      |-> pip_args.local_throat_coordinates,
            translation |-> <<Z(0), Z(0), pip_args.binned_offset>>,
            size_change |-> Q(3, 2)],
           [fn           |-> "compute_2d_rotation",
            angle        |-> pip_args.symmetry_angle,
            center       |-> <<Q(w, 2), Q(h, 2), Z(0)>>,
            interpolator |-> "linear"] >>

\* C11: at every position of the call the image is the caller's image with
\* the first PipStepsDone of the three operations (Stage A angle, Stage B
\* matrix about the throat coordinates with translation (0, 0, offset) and
\* enlargement 1.5, Stage C angle) applied in that order, each to the output
\* of the previous one; the returned image carries exactly the three.
C11_ThreeResamplingsInOrder ==
    pip_pc # "idle" =>
        /\ pip_image.ops = SubSeq(PipExpectedOps, 1, PipStepsDone)
        /\ pip_image.shape[1] =
              (IF PipStepsDone >= 2 THEN (3 * pip_args.image.shape[1]) \div 2
               ELSE pip_args.image.shape[1])
        /\ pip_image.shape[2] = pip_args.image.shape[2]
        /\ pip_image.shape[3] = pip_args.image.shape[3]

\* C11 witness: a call with distinct Stage A and Stage C angles, a non-zero
\* offset and a volume that the enlargement changes has returned
C11_Witness ==
    /\ pip_pc = "returned"
    /\ pip_args.local_triangle_angle # pip_args.symmetry_angle
    /\ pip_args.binned_offset # Z(0)
    /\ pip_args.rotation_matrix # Eye3
    /\ pip_args.image.shape[1] > 1
    /\ Len(pip_image.ops) = 3

\* ------------------------------------------------------------------------
\* Properties of count_the_needed_translation_for_black_slices
\* ------------------------------------------------------------------------
RECURSIVE LeadingBlack(_, _)
\* the number of consecutive mostly-zero slices of the volume from 0-based
\* index n onwards
LeadingBlack(image, n) ==
    IF n >= Len(image) \/ 2 * ZeroCount(image[n + 1]) <= SliceSize(image[n + 1]) THEN 0
    ELSE 1 + LeadingBlack(image, n + 1)

\* the volume with its slices in reverse order
ReversedVolume(image) == [n \in 1..Len(image) |-> image[Len(image) + 1 - n]]

\* C17 (as claimed): the returned front count is the number k of consecutive
\* mostly-zero slices at the start of the volume (k < depth), and the back
\* count is the same number for the end of the volume.
C17_CountsLeadingBlackSlices ==
    blk_pc = "returned" =>
        /\ LeadingBlack(blk_image, 0) < Len(blk_image) =>
              blk_result[1] = LeadingBlack(blk_image, 0)
        /\ LeadingBlack(ReversedVolume(blk_image), 0) < Len(blk_image) =>
              blk_result[2] = LeadingBlack(ReversedVolume(blk_image), 0)

\* ------------------------------------------------------------------------
\* Properties of symmetry_based_registration
\* ------------------------------------------------------------------------
\* C12 (as claimed): the returned angle is the candidate with the minimum
\* score of all candidates evaluated, the earliest one among equal minima,
\* whatever the scores are.
C12_ReturnsFirstMinimum ==
    sym_pc = "returned" =>
        sym_result[3] = angles_evaluated[cross_correlation_argmin + 1]

\* the score the code computes for the unrotated volumes to study
IdentityScore ==
    Q(SubtractionCount(Crop(image_to_study, skull_bounding_box),
                       Crop(skull_to_study, skull_bounding_box)),
      ComparedCount(Crop(image_to_study, skull_bounding_box)))

\* the symmetric test case of the claim: budget 5 and score 0 at angle 0
SymmetricCase ==
    /\ sym_pc = "returned"
    /\ sym_args.number_of_iterations = 5
    /\ IdentityScore = Z(0)

\* C13 (as claimed): for a mask with score 0 at angle 0 and N = 5 the search
\* returns angle 0.
C13_SymmetricSelectsZero == SymmetricCase => sym_result[3] = Z(0)

\* C13 (amended): for a mask with score 0 at angle 0 and N = 5 the search
\* returns the most negative candidate angle whose score is 0: that is angle
\* 0 when no candidate at a negative angle scores 0 too, and the first such
\* candidate otherwise.
C13_SymmetricSelectsFirstZero ==
    SymmetricCase =>
        /\ cross_correlation_min = Z(0)
        /\ cross_correlation_argmin \in 0..5
        /\ sym_result[3] = Q(cross_correlation_argmin - 5, 180)

\* C13 witness: such a search over a skull that is not empty has returned
\* angle 0
C13_Witness ==
    /\ SymmetricCase
    /\ sym_args.skull = << << <<0, 1, 0>> >> >>
    /\ cross_correlation_argmin = 5
    /\ sym_result[3] = Z(0)

\* an angle stored as the coefficient q of pi equals r radians, r rational,
\* only when both are 0 (pi is irrational)
IsRadians(angle, r) == angle = Z(0) /\ r = Z(0)

C15_RecenteredEqualHalves ==
    sym_pc \notin {"idle", "recenter"} =>
        /\ skull_bounding_box[2] - sym_args.throat_coordinates[1]
              = sym_args.throat_coordinates[1] - skull_bounding_box[1]
        /\ \A k \in 1..Len(half_widths) : \A pair \in half_widths[k] : pair[1] = pair[2]

\* C15 witness: a box that was not centred on the throat has been re-centred
\* and a candidate with halves of two columns has been compared
C15_Witness ==
    /\ sym_pc = "search"
    /\ skull_bounding_box # sym_args.skull_bounding_box
    /\ Len(half_widths) > 0
    /\ \E pair \in half_widths[1] : pair[1] = 2

\* ------------------------------------------------------------------------
\* Properties of straight_triangle_rotation
\* ------------------------------------------------------------------------
\* the jaw line is already horizontal and the centre of the skull box is
\* above it: its row coordinate y is the smaller one
HorizontalJawsSkullAbove ==
    /\ tri_args.barycenter_jaw_one[2] = tri_args.barycenter_jaw_two[2]
    /\ tri_args.barycenter_jaw_one[1] # tri_args.barycenter_jaw_two[1]
    /\ RLess(skull_center[2], Z(tri_args.barycenter_jaw_one[2]))

C18_OwnSimilarityDecides ==
    \A k \in 1..Len(thr_tests) :
        thr_tests[k].deleted <=> SimilarityBelow(thr_tests[k].total, thr_tests[k].candidate)

\* ------------------------------------------------------------------------
\* Properties of material_decomposition_pipeline
\* ------------------------------------------------------------------------
\* every slice index of a list of records is smaller than the number of files
\* of every input folder
SlicesBounded(records) ==
    \A k \in 1..Len(records) : \A f \in 1..Len(list_of_input_folders) :
        records[k].slice < Len(folder_files[list_of_input_folders[f]])

\* the slice indices of a list of records never decrease
SlicesInOrder(records) ==
    \A k \in 1..(Len(records) - 1) : records[k].slice <= records[k + 1].slice

\* the four decimal digits of an index below 10000
FourDigits(n) ==
    DigitChar((n \div 1000) % 10) \o DigitChar((n \div 100) % 10)
        \o DigitChar((n \div 10) % 10) \o DigitChar(n % 10)

\* every saved image is named by one of the output folders followed by the
\* four digits of its slice index
SavedNamesPadded ==
    /\ \A k \in 1..Len(saved) :
          /\ \E j \in 1..Len(list_of_output_folders) :
                saved[k].folder = list_of_output_folders[j]
          /\ saved[k].name = saved[k].folder \o FourDigits(saved[k].slice)
    /\ Format4(123) = "0123"
    /\ Format4(9999) = "9999"

\* C19 (as claimed): every slice index the pipeline loads or writes is smaller
\* than the file count of every input folder, the indices are visited in
\* increasing order, and every output file name is the output folder of the
\* material followed by the slice index zero-padded to 4 digits.
C19_SliceIndicesBelowEveryCount ==
    /\ SlicesBounded(opened)
    /\ SlicesBounded(saved)
    /\ SlicesInOrder(opened)
    /\ SlicesInOrder(saved)
    /\ SavedNamesPadded

\* C19 (amended): the same for every image the slice loop loads or writes;
\* before the loop the pipeline opens file 0 of the first input folder as the
\* reference image, whatever the file counts of the other input folders.
C19_LoopSliceIndicesBelowEveryCount ==
    /\ opened # <<>> => opened[1] = [folder |-> list_of_input_folders[1], slice |-> 0]
    /\ SlicesBounded(SubSeq(opened, 2, Len(opened)))
    /\ SlicesBounded(saved)
    /\ SlicesInOrder(opened)
    /\ SlicesInOrder(saved)
    /\ SavedNamesPadded

\* C19 witness: the second slice of a run with gold has been written
C19_Witness ==
    \E k \in 1..Len(saved) :
        /\ saved[k].slice = 1
        /\ saved[k].name = "rat_material_decomposition/Au_decomposition/0001"

\* the index of the first folder glob returned from which a material resolves
FirstAppearance(material) ==
    CHOOSE k \in 1..Len(checking_folders) :
        /\ retrieve_material_and_energy_from_folder_name(checking_folders[k])[1] = material
        /\ \A l \in 1..(k - 1) :
              retrieve_material_and_energy_from_folder_name(checking_folders[l])[1] # material

\* the materials that resolve from some folder
Discovered ==
    {retrieve_material_and_energy_from_folder_name(checking_folders[k])[1] :
        k \in 1..Len(checking_folders)} \ {NoneName}

\* the material index j stands for: the discovered material with j - 1
\* discovered materials appearing before it, water after all of them
MaterialOfIndex(j) ==
    IF j = Cardinality(Discovered) + 1 THEN "water"
    ELSE CHOOSE m \in Discovered :
             Cardinality({o \in Discovered : FirstAppearance(o) < FirstAppearance(m)}) = j - 1

\* the attenuation column of a material: one entry per energy
ColumnOf(material) ==
    Tabulate([e \in 1..Len(list_of_energies) |->
                 get_attenuation_from_kedge(material, list_of_energies[e][2],
                                            list_of_energies[e][1])],
             Len(list_of_energies))

\* C20: index j denotes the same material, the j-th discovered one in order
\* of first appearance and water last, in column j of the attenuation array,
\* in densities[j] and in output folder j; every concentration map is saved in
\* the folder of the material whose attenuation column and density made it.
C20_IndexDenotesOneMaterial ==
    /\ mdp_pc \notin {"idle", "discover", "tables"} =>
          /\ Len(list_of_densities) = Cardinality(Discovered) + 1
          /\ \A e \in 1..Len(attenuations_array) :
                Len(attenuations_array[e]) = Cardinality(Discovered) + 1
          /\ \A j \in 1..(Cardinality(Discovered) + 1) :
                /\ \A e \in 1..Len(attenuations_array) :
                      attenuations_array[e][j] = ColumnOf(MaterialOfIndex(j))[e]
                /\ list_of_densities[j] = densities_dict(Lower(MaterialOfIndex(j)))
    /\ mdp_pc \in {"slices", "returned"} =>
          /\ Len(list_of_output_folders) = Cardinality(Discovered) + 1
          /\ \A j \in 1..(Cardinality(Discovered) + 1) :
                list_of_output_folders[j] =
                    "rat_material_decomposition/" \o MaterialOfIndex(j) \o "_decomposition/"
    /\ \A k \in 1..Len(saved) :
          \E j \in 1..(Cardinality(Discovered) + 1) :
             /\ saved[k].folder =
                   "rat_material_decomposition/" \o MaterialOfIndex(j) \o "_decomposition/"
             /\ saved[k].image.attenuation_column = ColumnOf(MaterialOfIndex(j))
             /\ saved[k].image.density = densities_dict(Lower(MaterialOfIndex(j)))

\* C20 witness: iodine was discovered before gold, from three folders, and
\* the map of gold, second of three, has been saved in the folder of gold
C20_Witness ==
    /\ Len(checking_folders) = 3
    /\ list_of_materials = <<"I", "Au">>
    /\ \E k \in 1..Len(saved) :
          /\ saved[k].folder = "rat_material_decomposition/Au_decomposition/"
          /\ saved[k].image.density = Q(193, 10)
          /\ saved[k].image.attenuation_column = ColumnOf("Au")

\* the folders glob returned whose name does not resolve
Unresolved ==
    {k \in 1..Len(checking_folders) :
        retrieve_material_and_energy_from_folder_name(checking_folders[k])
            = <<NoneName, NoneName>>}

\* a print of the pipeline names a folder
Mentions(entry, folder_name) ==
    CASE entry[1] = "folder :" -> entry[2] = folder_name
      [] entry[1] = "materials :" -> \E k \in 1..Len(entry[2]) : entry[2][k] = folder_name
      [] entry[1] = "list of energies :" ->
            \E k \in 1..Len(entry[2]) : folder_name \in {entry[2][k][1], entry[2][k][2]}
      [] OTHER -> FALSE

\* C21 (as claimed): a folder whose name does not resolve is skipped, it gives
\* no energy row, no file list and no min/max pair and does not abort the
\* run by itself, and it is reported: by the end of the run something printed
\* names it.
C21_UnresolvedSkippedAndReported ==
    /\ mdp_pc \notin {"idle", "discover"} =>
          /\ \A k \in Unresolved : \A f \in 1..Len(list_of_input_folders) :
                list_of_input_folders[f] # checking_folders[k]
          /\ Len(list_of_energies) = Len(checking_folders) - Cardinality(Unresolved)
          /\ Len(list_of_min_max) = Len(checking_folders) - Cardinality(Unresolved)
    /\ mdp_pc \in {"folders", "slices", "returned"} =>
          Len(nb_of_filenames) = Len(checking_folders) - Cardinality(Unresolved)
    /\ mdp_pc = "raised" => mdp_raised \in {"ValueError", "IndexError", "ZeroDivisionError"}
    /\ mdp_pc \in {"returned", "raised"} =>
          \A k \in Unresolved :
             \E p \in 1..Len(printed) : Mentions(printed[p], checking_folders[k])

\* C22 (as claimed): when a run aborts with a shape error, no output image
\* has been written.
C22_NoOutputBeforeShapeAbort ==
    (mdp_pc = "raised" /\ mdp_raised = "ValueError") => saved = <<>>

\* C29 (as claimed): every progress report of a run with at least one slice
\* completes with a percentage between 0 and 100, the bar is full exactly at
\* the last slice, and no report keeps a slice from being decomposed.
C29_ProgressNeverAborts ==
    /\ mdp_raised # "ZeroDivisionError"
    /\ \A k \in 1..Len(progress) :
          /\ progress[k].percent_tenths \in 0..1000
          /\ progress[k].filled_length \in 0..100
          /\ progress[k].filled_length = 100 <=> k = total_filenames_nb

\* C23 (as claimed): when symmetry_based_registration returns, the bounding
\* box the caller passed holds the values it held before the call.
C23_InputsUnchanged ==
    sym_pc = "returned" => skull_bounding_box = sym_args.skull_bounding_box

\* the width of the image passed to symmetry_based_registration
SymImageWidth == Len(sym_args.image[1][1])

\* C28 (as claimed): for a box inside the image and a throat x inside the box,
\* the re-centred box keeps its x-range inside the image.
C28_RecenteredBoxInsideImage ==
    (/\ sym_pc \notin {"idle", "recenter"}
     /\ 0 <= sym_args.skull_bounding_box[1]
     /\ sym_args.skull_bounding_box[1] <= sym_args.throat_coordinates[1]
     /\ sym_args.throat_coordinates[1] <= sym_args.skull_bounding_box[2]
     /\ sym_args.skull_bounding_box[2] <= SymImageWidth - 1)
        => /\ 0 <= skull_bounding_box[1]
           /\ skull_bounding_box[1] <= skull_bounding_box[2]
           /\ skull_bounding_box[2] <= SymImageWidth - 1

\* C24 (as claimed): at every step of the rejection, list_of_ys and list_of_xs
\* hold the y and x components of exactly the vectors that remain.
C24_ComponentsOfRemainingVectors ==
    thr_pc \in {"front", "back", "tracked"} =>
        /\ list_of_ys = SortedList(ComponentList(vectors_list, 2))
        /\ list_of_xs = SortedList(ComponentList(vectors_list, 3))

\* the throat mask has at least two slices that are not empty
TwoSlicesNotEmpty ==
    Cardinality({k \in 1..Len(throat_mask_img) : throat_mask_img[k] # <<>>}) >= 2

\* C27 (as claimed): for a mask with at least two non-empty slices no list is
\* indexed while it is empty, the four lists keep lengths n + 1, n, n and n,
\* and the rejection ends with at least one vector left.
C27_RejectionLeavesAVector ==
    (thr_pc # "track" /\ TwoSlicesNotEmpty) =>
        /\ thr_raised # "IndexError"
        /\ Len(centroid_list) = Len(vectors_list) + 1
        /\ Len(list_of_ys) = Len(vectors_list)
        /\ Len(list_of_xs) = Len(vectors_list)
        /\ thr_pc = "tracked" => Len(vectors_list) >= 1


\* ---------------------------------------------------------------------------
\* C26: on the least-squares path, for every number of voxels V >= 1, the
\* accumulated solution has one row per voxel and P columns once the loop is
\* over, and the call does not end in the IndexError of the scaling loop.
C26_LstsqOneRowPerVoxel ==
    ~ExactBranch =>
        /\ pc \in {"alloc", "scale", "return", "returned"} =>
              /\ solution_matrix.ndim = 2
              /\ Len(solution_matrix.data) = NbVoxels
              /\ \A v \in 1..NbVoxels :
                    Len(solution_matrix.data[v]) = number_of_materials
        /\ pc = "raised" => raised # "IndexError"


\* ---------------------------------------------------------------------------
\* Properties of get_attenuation_from_kedge
\* ---------------------------------------------------------------------------
\* the column of muz (0-based) that belongs to K-edge material k (1 = iodine
\* .. 4 = gold) and an energy condition
KedgeColumn(k, above_or_below) ==
    IF above_or_below = "above" THEN 2 * (k - 1) + 1 ELSE 2 * (k - 1)

\* C25: for every accepted attenuation material and K-edge material name and
\* both energy conditions the value returned is the entry of muz in the row of
\* the attenuation material and in the column 2*(k-1) (below) or 2*(k-1)+1
\* (above) of the requested K-edge material, a column within 0..7.
C25_EntryOfRequestedKedge ==
    att_pc = "returned" =>
        LET k      == indices_dict(Lower(att_args.kedge_material))
            row    == indices_dict(Lower(att_args.attenuation_material))
            column == KedgeColumn(k, att_args.above_or_below)
        IN  /\ column \in 0..7
            /\ att_result = Q(muz[row + 1][column + 1], 10000)


\* ---------------------------------------------------------------------------
\* Properties of saveTiff16bit
\* ---------------------------------------------------------------------------
\* the limits in use differ in the right order and every pixel lies between them
WithinLimits ==
    /\ minIm < maxIm
    /\ \A i \in 1..Len(tif_data) : minIm <= tif_data[i] /\ tif_data[i] <= maxIm

\* C30: for pixel values between minIm and maxIm (minIm < maxIm) the stored
\* values lie in 0..65535 and are non-decreasing in the pixel value; a pixel
\* equal to minIm is stored as 0 and a pixel equal to maxIm as 65535.
C30_StoredMonotoneFullRange ==
    (tif_pc = "returned" /\ WithinLimits) =>
        /\ \A i \in 1..Len(tif_data) :
              /\ tif_written[i] \in 0..65535
              /\ tif_data[i] = minIm => tif_written[i] = 0
              /\ tif_data[i] = maxIm => tif_written[i] = 65535
        /\ \A i, j \in 1..Len(tif_data) :
              tif_data[i] <= tif_data[j] => tif_written[i] <= tif_written[j]

=============================================================================
